---- MODULE Spec2Model ----
(***************************************************************************)
(* Recommendation scoring and candidate assembly of the multi-domain       *)
(* recommender (restaurants, movies, TV shows).                            *)
(*                                                                         *)
(* Numbers.  JavaScript numbers with one decimal are kept as integers:     *)
(*   - restaurant ratings and minRating are in tenths (4.5 is 45) and a    *)
(*     restaurant score is in tenths of a point (30 points are 300);       *)
(*   - TV vote averages and min_imdb_rating are in tenths (8.0 is 80) and  *)
(*     a TV score is in twentieths of a point, so that vote_average / 2    *)
(*     is the integer vote_average-in-tenths (5 points are 100).           *)
(* An optional field is a sequence: << >> is undefined/null, << v >> is    *)
(* the value v.  A date string is kept as the year its first four          *)
(* characters parse to.                                                    *)
(***************************************************************************)
EXTENDS Integers, Sequences, FiniteSets, TLC

VARIABLES
    \* --- one application of a scoring function (specification SpecScore)
    sKind,      \* "none" | "tv" | "rest": which engine scored
    sPrefs,     \* the preference record given to the engine
    sEntity,    \* the show / restaurant scored
    sJitter,    \* the value drawn from Math.random() * 2, in tenths
    sScore,     \* the score returned
    \* --- one recommendation call (specification Spec)
    pc,         \* position of the call
    dom,        \* "none" | "rest" | "movie" | "tv"
    count,      \* the count argument
    prefs,      \* the preference record of the call
    exclude,    \* the caller's exclusion set, mutated in place
    exclude0,   \* the exclusion set as it was at call time
    ratings,    \* the user's rating rows, in table order
    popular,    \* the provider's popular list (<< >> when it answers null)
    noDetails,  \* ids for which the provider's detail fetch answers null
    apiKey,     \* whether TMDB_API_KEY is configured
    db,         \* external ids stored in the catalog
    recs,       \* recommendations accumulated so far (external ids)
    phaseOf,    \* for each element of recs, the phase that pushed it
    cands,      \* candidateTvShows / candidateMovies
    seeds,      \* sortedRatings.slice(0, n): the seeds still to query
    simList,    \* results of the current seed still to walk
    idx,        \* index of the next element of the popular list
    queried,    \* the 'recommended for X' requests issued so far
    result,     \* the returned list
    \* --- the catalog tables (specification SpecCatalog)
    tables,     \* for each catalog, its rows in insertion order
    seq,        \* for each catalog, the last AUTOINCREMENT id handed out
    saved,      \* the last upsert: its catalog, its data, the row returned
    firstId,    \* for each catalog and external id, the local id first returned
    \* --- the preference prompts (specification SpecPrompt)
    pdom,       \* "none" | "rest" | "movie" | "tv": whose prompt is used
    ppc,        \* position inside the prompt handler
    pmem,       \* the preference object held by the CLI loop
    pstored,    \* the preference row of the user (<< >> when there is none)
    panswers,   \* the list answers typed in the last run of the handler
    \* --- the provider services (specification SpecProvider)
    googleKey,  \* whether GOOGLE_PLACES_API_KEY is configured
    warnings,   \* per service, the missing-key warnings printed so far
    genreListCache, \* movieGenreListCache and tvGenreListCache
    genreLog,   \* per genre list, what each call returned and whether it
                \* sent a request
    answer,     \* what the last provider call returned
    calls,      \* the provider calls made so far
    \* --- one user's CLI session (specification SpecSession)
    menu,       \* "none" | "tv" | "movie" | "rest": the menu the user is in
    liked,      \* the restaurant ids the user has a like record for
    likedAtStart,     \* the liked ids when 'Get Recommendations' was chosen
    shownAndLikedIds, \* the set the restaurant loop passes as exclusions
    recommendations,  \* the restaurants the loop has still to show
    displayed,  \* the restaurants the loop has displayed, in order
    browsing,   \* position of the restaurant loop
    dbRestaurants,    \* the rows of the restaurants table
    allDbRestaurants, \* the rows read when 'Get Recommendations' was chosen
    invoked     \* calls of getRestaurantRecommendations made by the loop

scoreVars == << sKind, sPrefs, sEntity, sJitter, sScore >>
callVars == << pc, dom, count, prefs, exclude, exclude0, ratings, popular,
               noDetails, apiKey, db, recs, phaseOf, cands, seeds, simList, idx,
               queried, result >>
catalogVars == << tables, seq, saved, firstId >>
promptVars == << pdom, ppc, pmem, pstored, panswers >>
providerVars == << googleKey, warnings, genreListCache, genreLog, answer, calls >>
sessionVars == << menu, liked, likedAtStart, shownAndLikedIds, recommendations,
                 displayed, browsing, dbRestaurants, allDbRestaurants, invoked >>
vars == << sKind, sPrefs, sEntity, sJitter, sScore, pc, dom, count, prefs,
           exclude, exclude0, ratings, popular, noDetails, apiKey, db, recs, phaseOf,
           cands, seeds, simList, idx, queried, result, tables, seq, saved,
           firstId, pdom, ppc, pmem, pstored, panswers, googleKey, warnings,
           genreListCache, genreLog, answer, calls, menu, liked, likedAtStart,
           shownAndLikedIds, recommendations, displayed, browsing, dbRestaurants,
           allDbRestaurants, invoked >>

(***************************************************************************)
(* Helpers for optional values and JavaScript idioms.                      *)
(***************************************************************************)
Undef == << >>

IsSet(o) == Len(o) > 0

Val(o) == o[1]

\* `x && ...` on an optional number: undefined, null and 0 are falsy.
Truthy(o) == IsSet(o) /\ Val(o) # 0

SeqToSet(s) == { s[i] : i \in 1..Len(s) }

\* String.prototype.toLowerCase on the strings the model uses.
Lower(s) ==
    CASE s = "Drama" -> "drama"
      [] s = "Comedy" -> "comedy"
      [] s = "Crime" -> "crime"
      [] s = "EN" -> "en"
      [] s = "Vegetarian" -> "vegetarian"
      [] s = "Vegan Options" -> "vegan options"
      [] OTHER -> s

\* String.prototype.includes on lower-cased strings: hay contains needle.
StrIncludes(hay, needle) ==
    \/ hay = needle
    \/ << hay, needle >> \in { << "vegan options", "vegan" >> }

(***************************************************************************)
(* Program constants.                                                      *)
(***************************************************************************)
CUISINE_MATCH_SCORE == 30

DIETARY_MATCH_SCORE == 50

RATING_BONUS_PER_POINT == 5

MIN_RATINGS_FOR_COLLABORATIVE_TV == 2

MIN_RATINGS_FOR_COLLABORATIVE == 3

\* A restaurant score in tenths of a point.
Tenths(x) == 10 * x

\* A TV score in twentieths of a point.
Twentieths(x) == 20 * x

(***************************************************************************)
(* TV scoring: the body of the map in getContentBasedTvShowRecommendations.*)
(***************************************************************************)
\* A list-valued preference that is present and non-empty.
ListStated(o) == IsSet(o) /\ Len(Val(o)) > 0

\* genreMatchCount: one per preferred genre (duplicates included) that the
\* show's genres include, both sides lower-cased.
TvGenreMatchCount(show, p) ==
    LET pg == Val(p.preferred_genres)
        showGenresLower == { Lower(g) : g \in SeqToSet(show.genres) }
    IN  Cardinality({ i \in 1..Len(pg) : Lower(pg[i]) \in showGenresLower })

\* Mutant of TvGenreOk: a show matching no preferred genre only earns no
\* genre points.
TvGenreOk_Soft(show, p) == TRUE

\* 1. Genre Match
TvGenreOk(show, p) ==
    ListStated(p.preferred_genres) => TvGenreMatchCount(show, p) # 0

\* Mutant of TvGenrePoints: any genre match earns one increment.
TvGenrePoints_Flat(show, p) ==
    IF ListStated(p.preferred_genres) THEN Twentieths(5) ELSE Twentieths(2)

TvGenrePoints(show, p) ==
    IF ListStated(p.preferred_genres)
    THEN Twentieths(TvGenreMatchCount(show, p) * 5)
    ELSE Twentieths(2)

\* 2. Language Match
TvLanguageOk(show, p) ==
    ListStated(p.preferred_languages) =>
        /\ IsSet(show.original_language)
        /\ Lower(Val(show.original_language))
               \in SeqToSet(Val(p.preferred_languages))

TvLanguagePoints(show, p) ==
    IF ListStated(p.preferred_languages) /\ TvLanguageOk(show, p)
    THEN Twentieths(10)
    ELSE 0

\* 3. First Air Year
TvYearOk(show, p) ==
    IF IsSet(show.first_air_date)
    THEN LET showYear == Val(show.first_air_date)
         IN  /\ ~(Truthy(p.first_air_year_min) /\ showYear < Val(p.first_air_year_min))
             /\ ~(Truthy(p.first_air_year_max) /\ showYear > Val(p.first_air_year_max))
    ELSE ~(Truthy(p.first_air_year_min) \/ Truthy(p.first_air_year_max))

\* 4. Avg Episode Duration
TvDurationOk(show, p) ==
    IF Len(show.episode_run_time) > 0
    THEN LET avgEpisodeRunTime == show.episode_run_time[1]
         IN  /\ ~(IsSet(p.avg_episode_duration_min)
                    /\ avgEpisodeRunTime < Val(p.avg_episode_duration_min))
             /\ ~(IsSet(p.avg_episode_duration_max)
                    /\ avgEpisodeRunTime > Val(p.avg_episode_duration_max))
    ELSE ~(IsSet(p.avg_episode_duration_min) \/ IsSet(p.avg_episode_duration_max))

\* 5. TMDB Vote Average
TvVoteOk(show, p) ==
    ~(IsSet(p.min_imdb_rating) /\ show.vote_average < Val(p.min_imdb_rating))

\* 6. Streaming Provider (soft)
TvProviderPoints(p) ==
    IF ListStated(p.preferred_streaming_providers) THEN Twentieths(3) ELSE 0

meetsAllHardFilters(show, p) ==
    /\ TvGenreOk(show, p)
    /\ TvLanguageOk(show, p)
    /\ TvYearOk(show, p)
    /\ TvDurationOk(show, p)
    /\ TvVoteOk(show, p)

\* The score of one show, in twentieths: 0, or the points plus
\* 5 + vote_average / 2.
TvScore(show, p) ==
    IF ~meetsAllHardFilters(show, p)
    THEN 0
    ELSE TvGenrePoints(show, p) + TvLanguagePoints(show, p)
         + TvProviderPoints(p) + Twentieths(5) + show.vote_average

(***************************************************************************)
(* Restaurant scoring: calculateRestaurantMatchScore.                      *)
(***************************************************************************)
arrayIntersects(arr1, arr2) == \E i \in 1..Len(arr1) : arr1[i] \in SeqToSet(arr2)

\* Mutant of RestaurantCuisinePoints: the open-to-anything bonus is the
\* full weight.
RestaurantCuisinePoints_FullBonus(r, p) ==
    LET userCuisines == p.favoriteCuisines
    IN  IF "Any" \in SeqToSet(userCuisines) \/ Len(userCuisines) = 0
        THEN Tenths(CUISINE_MATCH_SCORE)
        ELSE IF arrayIntersects(r.cuisines, userCuisines)
             THEN Tenths(CUISINE_MATCH_SCORE)
             ELSE 0

\* Mutant of RestaurantCuisinePoints: a shared cuisine earns nothing.
RestaurantCuisinePoints_NoMatchBonus(r, p) ==
    LET userCuisines == p.favoriteCuisines
    IN  IF "Any" \in SeqToSet(userCuisines) \/ Len(userCuisines) = 0
        THEN Tenths(CUISINE_MATCH_SCORE) \div 2
        ELSE 0

RestaurantCuisinePoints(r, p) ==
    LET userCuisines == p.favoriteCuisines
    IN  IF "Any" \in SeqToSet(userCuisines) \/ Len(userCuisines) = 0
        THEN Tenths(CUISINE_MATCH_SCORE) \div 2
        ELSE IF arrayIntersects(r.cuisines, userCuisines)
             THEN Tenths(CUISINE_MATCH_SCORE)
             ELSE 0

\* Mutant of meetsAllRestrictions: every restaurant passes.
meetsAllRestrictions_Always(r, p) == TRUE

meetsAllRestrictions(r, p) ==
    \A i \in 1..Len(p.dietaryRestrictions) :
        \E j \in 1..Len(r.dietaryOptions) :
            StrIncludes(Lower(r.dietaryOptions[j]), Lower(p.dietaryRestrictions[i]))

RestaurantDietaryPoints(r, p) ==
    IF Len(p.dietaryRestrictions) > 0
    THEN Tenths(DIETARY_MATCH_SCORE)
    ELSE Tenths(DIETARY_MATCH_SCORE) \div 5

\* Mutant of calculateRestaurantMatchScore: the jitter is added to the
\* rating before the rating is compared with minRating.
calculateRestaurantMatchScore_JitteredBar(r, p, jit) ==
    IF Len(p.dietaryRestrictions) > 0 /\ ~meetsAllRestrictions(r, p)
    THEN 0
    ELSE LET score == RestaurantCuisinePoints(r, p) + RestaurantDietaryPoints(r, p)
         IN  IF r.rating + jit >= p.minRating
             THEN score + (r.rating + jit - p.minRating) * RATING_BONUS_PER_POINT
                  + Tenths(10)
             ELSE IF score < Tenths(CUISINE_MATCH_SCORE + DIETARY_MATCH_SCORE) \div 2
                  THEN 0
                  ELSE score

\* Mutant of calculateRestaurantMatchScore: below the minimum rating a
\* score equal to half the combined weight is rejected too.
calculateRestaurantMatchScore_RejectAtHalf(r, p, jit) ==
    IF Len(p.dietaryRestrictions) > 0 /\ ~meetsAllRestrictions(r, p)
    THEN 0
    ELSE LET score == RestaurantCuisinePoints(r, p) + RestaurantDietaryPoints(r, p)
         IN  IF r.rating >= p.minRating
             THEN score + (r.rating - p.minRating) * RATING_BONUS_PER_POINT
                  + Tenths(10) + jit
             ELSE IF score <= Tenths(CUISINE_MATCH_SCORE + DIETARY_MATCH_SCORE) \div 2
                  THEN 0
                  ELSE score + jit

\* The score of one restaurant, in tenths; jit is Math.random() * 2.
calculateRestaurantMatchScore(r, p, jit) ==
    IF Len(p.dietaryRestrictions) > 0 /\ ~meetsAllRestrictions(r, p)
    THEN 0
    ELSE LET score == RestaurantCuisinePoints(r, p) + RestaurantDietaryPoints(r, p)
         IN  IF r.rating >= p.minRating
             THEN score + (r.rating - p.minRating) * RATING_BONUS_PER_POINT
                  + Tenths(10) + jit
             ELSE IF score < Tenths(CUISINE_MATCH_SCORE + DIETARY_MATCH_SCORE) \div 2
                  THEN 0
                  ELSE score + jit

(***************************************************************************)
(* .filter(score > 0).sort((a, b) => b.score - a.score): a stable sort,    *)
(* descending by score, of a sequence of [id, score] records.              *)
(***************************************************************************)
RECURSIVE InsertByScore(_, _)
InsertByScore(x, sorted) ==
    IF sorted = << >> THEN << x >>
    ELSE IF Head(sorted).score >= x.score
         THEN << Head(sorted) >> \o InsertByScore(x, Tail(sorted))
         ELSE << x >> \o sorted

RECURSIVE SortByScoreDesc(_)
SortByScoreDesc(s) ==
    IF s = << >> THEN << >>
    ELSE InsertByScore(s[Len(s)], SortByScoreDesc(SubSeq(s, 1, Len(s) - 1)))

KeepPositive(s) == SelectSeq(s, LAMBDA item : item.score > 0)

\* Array.prototype.slice(0, n) for n >= 0.
Slice(s, n) == SubSeq(s, 1, IF n < Len(s) THEN n ELSE Len(s))

Ids(s) == [ i \in 1..Len(s) |-> s[i].id ]

(***************************************************************************)
(* The provider and the stores, for one recommendation call.               *)
(***************************************************************************)
\* The largest count a call is made with.
MaxCount == 3

\* count: number = 5
DefaultCount == 5

\* What the provider's detail endpoint answers for a TV show id, which is
\* what saveTvShow stores and the catalog reads back.
TvShowDetails(id) ==
    CASE id = 1 -> [ tmdb_id |-> 1, genres |-> << "Drama" >>,
                     original_language |-> << "en" >>, first_air_date |-> << 2020 >>,
                     episode_run_time |-> << 45 >>, vote_average |-> 80 ]
      [] id = 2 -> [ tmdb_id |-> 2, genres |-> << "Comedy" >>,
                     original_language |-> << "fr" >>, first_air_date |-> << 2010 >>,
                     episode_run_time |-> << 25 >>, vote_average |-> 60 ]
      [] id = 3 -> [ tmdb_id |-> 3, genres |-> << "Drama", "Comedy" >>,
                     original_language |-> << "en" >>, first_air_date |-> << 1995 >>,
                     episode_run_time |-> << 60 >>, vote_average |-> 90 ]
      [] id = 4 -> [ tmdb_id |-> 4, genres |-> << >>,
                     original_language |-> Undef, first_air_date |-> Undef,
                     episode_run_time |-> << >>, vote_average |-> 0 ]
      [] id = 5 -> [ tmdb_id |-> 5, genres |-> << "Crime" >>,
                     original_language |-> << "es" >>, first_air_date |-> << 2022 >>,
                     episode_run_time |-> << 30 >>, vote_average |-> 75 ]
      [] OTHER  -> [ tmdb_id |-> id, genres |-> << "Drama" >>,
                     original_language |-> << "en" >>, first_air_date |-> << 2021 >>,
                     episode_run_time |-> << 50 >>, vote_average |-> 85 ]

\* The genre names stored with a movie.
MovieGenres(id) == TvShowDetails(id).genres

\* The provider's 'recommended for X' results (<< >> also when it answers
\* null).  Lists overlap each other and the popular list, and repeat ids.
SimilarTo(id) ==
    CASE id = 1 -> << 3, 4, 3 >>
      [] id = 2 -> << 4, 5, 1 >>
      [] OTHER  -> << >>

\* The provider's popular list: absent, or with repeated ids.
PopularChoices == { << >>, << 1, 2, 3, 4, 5 >>, << 2, 2, 6, 1 >> }

\* The user's rating rows [id, score |-> rating 1..5], in table order.
RatingChoices ==
    { << >>,
      << [ id |-> 1, score |-> 5 ] >>,
      << [ id |-> 1, score |-> 3 ], [ id |-> 2, score |-> 5 ] >>,
      << [ id |-> 1, score |-> 4 ], [ id |-> 2, score |-> 5 ], [ id |-> 3, score |-> 5 ] >>,
      << [ id |-> 5, score |-> 2 ], [ id |-> 1, score |-> 4 ], [ id |-> 2, score |-> 5 ],
         [ id |-> 3, score |-> 5 ] >> }

ExcludeChoices == { {}, { 1 }, { 2, 3 } }

\* Ids whose detail fetch answers null.
NoDetailsChoices == { {}, { 3 } }

\* Catalog rows present beside the rated ones.
StoredChoices == { {}, { 3, 4 } }

NoTvPrefs ==
    [ preferred_genres |-> Undef, preferred_languages |-> Undef,
      first_air_year_min |-> Undef, first_air_year_max |-> Undef,
      avg_episode_duration_min |-> Undef, avg_episode_duration_max |-> Undef,
      min_imdb_rating |-> Undef, preferred_streaming_providers |-> Undef ]

TvPrefChoices ==
    { NoTvPrefs,
      [ NoTvPrefs EXCEPT !.preferred_languages = << << "en" >> >>,
                         !.min_imdb_rating = << 70 >> ],
      [ NoTvPrefs EXCEPT !.preferred_genres = << << "Drama" >> >>,
                         !.first_air_year_min = << 2000 >> ] }

\* allRestaurants: the rows of the restaurant catalog.
RestaurantCatalog ==
    << [ id |-> 1, cuisines |-> << "Italian" >>,
         dietaryOptions |-> << "vegetarian", "vegan" >>, rating |-> 45 ],
       [ id |-> 2, cuisines |-> << "Mexican" >>,
         dietaryOptions |-> << "vegetarian" >>, rating |-> 50 ],
       [ id |-> 3, cuisines |-> << "Italian" >>,
         dietaryOptions |-> << >>, rating |-> 42 ],
       [ id |-> 4, cuisines |-> << "Food" >>,
         dietaryOptions |-> << >>, rating |-> 0 ],
       [ id |-> 5, cuisines |-> << "Thai", "Cafe" >>,
         dietaryOptions |-> << "Vegan Options" >>, rating |-> 38 ],
       [ id |-> 6, cuisines |-> << "Italian", "Pizza" >>,
         dietaryOptions |-> << "Vegetarian" >>, rating |-> 10 ],
       [ id |-> 7, cuisines |-> << "Mexican" >>,
         dietaryOptions |-> << >>, rating |-> 40 ] >>

RestaurantIds == { RestaurantCatalog[i].id : i \in 1..Len(RestaurantCatalog) }

RestaurantById(id) ==
    CHOOSE r \in SeqToSet(RestaurantCatalog) : r.id = id

RestaurantPrefChoices ==
    { [ favoriteCuisines |-> << >>, dietaryRestrictions |-> << >>, minRating |-> 10 ],
      [ favoriteCuisines |-> << "Any" >>, dietaryRestrictions |-> << >>, minRating |-> 30 ],
      [ favoriteCuisines |-> << "Italian" >>, dietaryRestrictions |-> << "vegetarian" >>,
        minRating |-> 10 ],
      [ favoriteCuisines |-> << "Any", "Italian" >>,
        dietaryRestrictions |-> << "vegetarian" >>, minRating |-> 40 ],
      [ favoriteCuisines |-> << "Italian", "Mexican" >>, dietaryRestrictions |-> << >>,
        minRating |-> 40 ] }

\* One draw of Math.random() * 2 per restaurant scored, in tenths.
JitterDraws == [ RestaurantIds -> { 0, 19 } ]

RatedIds(rs) == { rs[i].id : i \in 1..Len(rs) }

\* The values of the count argument: small ones, and the default every
\* caller uses.
CountChoices == (1..MaxCount) \cup { DefaultCount }

(***************************************************************************)
(* Specification SpecScore: one application of a scoring function.         *)
(* Init draws the engine and the preference record, the action draws the   *)
(* entity (and the jitter) and applies the function.                       *)
(***************************************************************************)
\* TV preference records as the preference prompt can store them: a list is
\* undefined, empty (input of commas only) or non-empty; parseInt accepts 0.
ScoreTvPrefs ==
    [ preferred_genres : { Undef, << << >> >>, << << "drama" >> >>,
                           << << "Drama", "comedy" >> >> },
      preferred_languages : { Undef, << << "en" >> >> },
      first_air_year_min : { Undef, << 0 >>, << 2000 >> },
      first_air_year_max : { Undef, << 0 >>, << 2015 >> },
      avg_episode_duration_min : { Undef, << 30 >> },
      avg_episode_duration_max : { Undef, << 50 >> },
      min_imdb_rating : { Undef, << 70 >> },
      preferred_streaming_providers : { Undef, << << "Netflix" >> >> } ]

\* Stored TV shows: every attribute the scoring reads may be missing.
ScoreTvShows ==
    [ tmdb_id : { 1 },
      genres : { << >>, << "Drama" >>, << "Drama", "Comedy" >> },
      original_language : { Undef, << "en" >>, << "fr" >> },
      first_air_date : { Undef, << 1995 >>, << 2020 >> },
      episode_run_time : { << >>, << 25 >>, << 60 >> },
      vote_average : { 50, 80 } ]

ScoreRestaurantPrefs ==
    [ favoriteCuisines : { << >>, << "Any" >>, << "Italian" >>,
                           << "Italian", "Thai" >> },
      dietaryRestrictions : { << >>, << "vegetarian" >>,
                              << "vegetarian", "vegan" >> },
      minRating : { 10, 40, 45 } ]

\* rating 0 is what the provider mapping stores for a place without rating.
ScoreRestaurants ==
    [ id : { 1 },
      cuisines : { << "Italian" >>, << "Mexican", "Thai" >>, << "Food" >>,
                   << "Italian", "Thai" >> },
      dietaryOptions : { << >>, << "vegetarian" >>,
                         << "Vegetarian", "Vegan Options" >> },
      rating : { 0, 38, 42, 48 } ]

\* Math.random() * 2 lies in [0, 2): in tenths, 0 .. 19.
JitterChoices == { 0, 7, 19 }

NoPrefs == [ none |-> TRUE ]

CallIdleWith(key) ==
    /\ pc = "idle"
    /\ dom = "none"
    /\ count = 0
    /\ prefs = NoPrefs
    /\ exclude = {}
    /\ exclude0 = {}
    /\ ratings = << >>
    /\ popular = << >>
    /\ noDetails = {}
    /\ apiKey = key
    /\ db = {}
    /\ recs = << >>
    /\ phaseOf = << >>
    /\ cands = << >>
    /\ seeds = << >>
    /\ simList = << >>
    /\ idx = 1
    /\ queried = << >>
    /\ result = << >>

CallIdle == CallIdleWith(TRUE)

Catalogs == { "rest", "movie", "tv" }

ExternalIds == { 1, 2 }

\* Empty tables, nothing upserted.
CatalogIdle ==
    /\ tables = [ k \in Catalogs |-> << >> ]
    /\ seq = [ k \in Catalogs |-> 0 ]
    /\ saved = << >>
    /\ firstId = [ k \in Catalogs |-> [ e \in ExternalIds |-> 0 ] ]

\* No prompt in use.
PromptIdle ==
    /\ pdom = "none"
    /\ ppc = "idle"
    /\ pmem = << >>
    /\ pstored = << >>
    /\ panswers = << >>

GenreLists == { "movie", "tv" }

Services == { "tmdb", "google" }

\* Both keys configured, no provider call made.
ProviderIdle ==
    /\ googleKey = TRUE
    /\ warnings = [ s \in Services |-> 0 ]
    /\ genreListCache = [ k \in GenreLists |-> Undef ]
    /\ genreLog = [ k \in GenreLists |-> << >> ]
    /\ answer = Undef
    /\ calls = 0

\* The user is in no menu and has liked nothing.
SessionIdle ==
    /\ menu = "none"
    /\ liked = {}
    /\ likedAtStart = {}
    /\ shownAndLikedIds = {}
    /\ recommendations = << >>
    /\ displayed = << >>
    /\ browsing = "no"
    /\ dbRestaurants = << >>
    /\ allDbRestaurants = << >>
    /\ invoked = 0

InitScore ==
    /\ \/ sKind = "tv" /\ sPrefs \in ScoreTvPrefs
       \/ sKind = "rest" /\ sPrefs \in ScoreRestaurantPrefs
    /\ sEntity = Undef
    /\ sJitter = 0
    /\ sScore = -1
    /\ CallIdle
    /\ CatalogIdle
    /\ PromptIdle
    /\ ProviderIdle
    /\ SessionIdle

ScoreTvShow ==
    /\ sKind = "tv"
    /\ sEntity = Undef
    /\ \E show \in ScoreTvShows :
          /\ sEntity' = << show >>
          /\ sScore' = TvScore(show, sPrefs)
    /\ UNCHANGED << sKind, sPrefs, sJitter >>
    /\ UNCHANGED callVars
    /\ UNCHANGED << catalogVars, promptVars >>
    /\ UNCHANGED << providerVars, sessionVars >>

ScoreRestaurant ==
    /\ sKind = "rest"
    /\ sEntity = Undef
    /\ \E r \in ScoreRestaurants, jit \in JitterChoices :
          /\ sEntity' = << r >>
          /\ sJitter' = jit
          /\ sScore' = calculateRestaurantMatchScore(r, sPrefs, jit)
    /\ UNCHANGED << sKind, sPrefs >>
    /\ UNCHANGED callVars
    /\ UNCHANGED << catalogVars, promptVars >>
    /\ UNCHANGED << providerVars, sessionVars >>

NextScore == ScoreTvShow \/ ScoreRestaurant

SpecScore == InitScore /\ [][NextScore]_vars

\* An entity has been scored.
Scored == sEntity # Undef

(***************************************************************************)
(* Claims about the scoring functions (specification SpecScore).           *)
(***************************************************************************)
Bit(b) == IF b THEN 1 ELSE 0

TheEntity == Val(sEntity)

\* What it means for a show to satisfy a stated TV constraint: membership
\* for the language, range containment for year and duration, a threshold
\* for the vote average; a show without the attribute does not satisfy it.
TvLanguageSatisfied(show, p) ==
    /\ IsSet(show.original_language)
    /\ Lower(Val(show.original_language)) \in SeqToSet(Val(p.preferred_languages))

TvYearMinSatisfied(show, p) ==
    IsSet(show.first_air_date) /\ Val(show.first_air_date) >= Val(p.first_air_year_min)

TvYearMaxSatisfied(show, p) ==
    IsSet(show.first_air_date) /\ Val(show.first_air_date) <= Val(p.first_air_year_max)

TvDurationMinSatisfied(show, p) ==
    /\ Len(show.episode_run_time) > 0
    /\ show.episode_run_time[1] >= Val(p.avg_episode_duration_min)

TvDurationMaxSatisfied(show, p) ==
    /\ Len(show.episode_run_time) > 0
    /\ show.episode_run_time[1] <= Val(p.avg_episode_duration_max)

TvVoteSatisfied(show, p) == show.vote_average >= Val(p.min_imdb_rating)

\* The number of required constraints a TV preference record states.
TvStatedCount(p) ==
    Bit(ListStated(p.preferred_languages))
    + Bit(IsSet(p.first_air_year_min)) + Bit(IsSet(p.first_air_year_max))
    + Bit(IsSet(p.avg_episode_duration_min)) + Bit(IsSet(p.avg_episode_duration_max))
    + Bit(IsSet(p.min_imdb_rating))

\* The number of stated constraints the show does not satisfy.
TvFailedCount(show, p) ==
    Bit(ListStated(p.preferred_languages) /\ ~TvLanguageSatisfied(show, p))
    + Bit(IsSet(p.first_air_year_min) /\ ~TvYearMinSatisfied(show, p))
    + Bit(IsSet(p.first_air_year_max) /\ ~TvYearMaxSatisfied(show, p))
    + Bit(IsSet(p.avg_episode_duration_min) /\ ~TvDurationMinSatisfied(show, p))
    + Bit(IsSet(p.avg_episode_duration_max) /\ ~TvDurationMaxSatisfied(show, p))
    + Bit(IsSet(p.min_imdb_rating) /\ ~TvVoteSatisfied(show, p))

\* The dietary restrictions no option of the restaurant contains.
UnmetRestrictions(r, p) ==
    { i \in 1..Len(p.dietaryRestrictions) :
        ~\E j \in 1..Len(r.dietaryOptions) :
            StrIncludes(Lower(r.dietaryOptions[j]), Lower(p.dietaryRestrictions[i])) }

\* C2: hard filters are a conjunction.  With at least two required
\* constraints stated, an entity that satisfies all of them but one (an
\* absent attribute counting as a failure) scores exactly 0.
C2_HardFiltersAreConjunction ==
    Scored =>
        /\ (sKind = "tv" /\ TvStatedCount(sPrefs) >= 2
                /\ TvFailedCount(TheEntity, sPrefs) = 1) => sScore = 0
        /\ (sKind = "rest" /\ Len(sPrefs.dietaryRestrictions) >= 2
                /\ Cardinality(UnmetRestrictions(TheEntity, sPrefs)) = 1) => sScore = 0

\* The user states a cuisine preference: a non-empty list without "Any".
CuisinesStated(p) ==
    Len(p.favoriteCuisines) > 0 /\ "Any" \notin SeqToSet(p.favoriteCuisines)

NoCuisineOverlap(r, p) == SeqToSet(r.cuisines) \cap SeqToSet(p.favoriteCuisines) = {}

NoGenreOverlap(show, p) ==
    { Lower(g) : g \in SeqToSet(show.genres) }
        \cap { Lower(g) : g \in SeqToSet(Val(p.preferred_genres)) } = {}

\* C3 as stated: category preference is never a hard filter.  An entity
\* with no overlap with a non-empty preferred set that passes all hard
\* filters scores more than 0.
C3_CategoryNeverHardFilter ==
    Scored =>
        /\ (sKind = "tv" /\ ListStated(sPrefs.preferred_genres)
                /\ NoGenreOverlap(TheEntity, sPrefs)
                /\ TvFailedCount(TheEntity, sPrefs) = 0) => sScore > 0
        /\ (sKind = "rest" /\ CuisinesStated(sPrefs)
                /\ NoCuisineOverlap(TheEntity, sPrefs)
                /\ UnmetRestrictions(TheEntity, sPrefs) = {}) => sScore > 0

\* C3 as amended.  Restaurants: cuisine preference is soft where the
\* rating bar is met or a dietary restriction is stated; a restaurant with
\* no overlap that meets every restriction scores more than 0 exactly when
\* its rating is at least minRating or the user states a restriction.
\* TV: genre preference is a hard filter; a show matching none of a
\* non-empty preferred genre list scores 0.
C3_CategorySoftForRestaurantsHardForTv ==
    Scored =>
        /\ (sKind = "tv" /\ ListStated(sPrefs.preferred_genres)
                /\ NoGenreOverlap(TheEntity, sPrefs)) => sScore = 0
        /\ (sKind = "rest" /\ CuisinesStated(sPrefs)
                /\ NoCuisineOverlap(TheEntity, sPrefs)
                /\ UnmetRestrictions(TheEntity, sPrefs) = {}) =>
               (sScore > 0 <=> (\/ TheEntity.rating >= sPrefs.minRating
                                \/ Len(sPrefs.dietaryRestrictions) > 0))

\* C3 witness: a restaurant sharing no cuisine with a user who names
\* cuisines, below the rating bar, kept because the restrictions are met.
C3_Witness ==
    /\ Scored
    /\ sKind = "rest"
    /\ CuisinesStated(sPrefs)
    /\ NoCuisineOverlap(TheEntity, sPrefs)
    /\ Len(sPrefs.dietaryRestrictions) > 0
    /\ TheEntity.rating < sPrefs.minRating
    /\ sScore > 0

\* The category preference is unset: TV genres undefined or empty,
\* restaurant cuisines empty or containing "Any".
RestaurantCategoryUnset(p) == ~CuisinesStated(p)

TvCategoryUnset(p) == ~ListStated(p.preferred_genres)

\* The parts of a positive restaurant score that are not the cuisine part.
RestaurantOtherPoints(r, p, jit) ==
    (IF Len(p.dietaryRestrictions) > 0
        THEN Tenths(DIETARY_MATCH_SCORE) ELSE Tenths(DIETARY_MATCH_SCORE) \div 5)
    + (IF r.rating >= p.minRating
          THEN (r.rating - p.minRating) * RATING_BONUS_PER_POINT + Tenths(10) ELSE 0)
    + jit

\* The parts of a positive TV score that are not the genre part.
TvOtherPoints(show, p) ==
    (IF ListStated(p.preferred_languages) THEN Twentieths(10) ELSE 0)
    + (IF ListStated(p.preferred_streaming_providers) THEN Twentieths(3) ELSE 0)
    + Twentieths(5) + show.vote_average

\* C4 as stated: with the category preference unset every entity scores
\* more than 0 and the category part of its score is half the per-match
\* weight (half of CUISINE_MATCH_SCORE; half of the per-genre 5).
C4_UnsetCategoryHalfWeight ==
    Scored =>
        /\ (sKind = "rest" /\ RestaurantCategoryUnset(sPrefs)) =>
              /\ sScore > 0
              /\ sScore - RestaurantOtherPoints(TheEntity, sPrefs, sJitter)
                    = Tenths(CUISINE_MATCH_SCORE) \div 2
        /\ (sKind = "tv" /\ TvCategoryUnset(sPrefs)) =>
              /\ sScore > 0
              /\ sScore - TvOtherPoints(TheEntity, sPrefs) = Twentieths(5) \div 2

\* C4 as amended.  With the category preference unset the category part of
\* a positive score is a flat bonus, CUISINE_MATCH_SCORE / 2 = 15 for a
\* restaurant and 2 (not half of 5) for a TV show.  The score is positive
\* for a restaurant exactly when it meets every dietary restriction and
\* either has rating >= minRating or restrictions are stated, and for a TV
\* show whenever it satisfies every stated language, year, duration and
\* vote constraint.
C4_UnsetCategoryFlatBonus ==
    Scored =>
        /\ (sKind = "rest" /\ RestaurantCategoryUnset(sPrefs)) =>
              /\ sScore > 0 <=>
                    /\ UnmetRestrictions(TheEntity, sPrefs) = {}
                    /\ \/ TheEntity.rating >= sPrefs.minRating
                       \/ Len(sPrefs.dietaryRestrictions) > 0
              /\ sScore > 0 =>
                    sScore - RestaurantOtherPoints(TheEntity, sPrefs, sJitter)
                        = Tenths(CUISINE_MATCH_SCORE) \div 2
        /\ (sKind = "tv" /\ TvCategoryUnset(sPrefs)) =>
              /\ TvFailedCount(TheEntity, sPrefs) = 0 => sScore > 0
              /\ sScore > 0 => sScore - TvOtherPoints(TheEntity, sPrefs) = Twentieths(2)

\* C4 witness: a show without genres scored for a user without genre
\* preference, and eligible.
C4_Witness ==
    /\ Scored
    /\ sKind = "tv"
    /\ TvCategoryUnset(sPrefs)
    /\ TheEntity.genres = << >>
    /\ TvStatedCount(sPrefs) >= 1
    /\ sScore > 0

\* The number of the user's favorite cuisines that the restaurant has.
CuisineMatchCount(r, p) ==
    Cardinality(SeqToSet(r.cuisines) \cap SeqToSet(p.favoriteCuisines))

\* The category part of a positive score.
TvCategoryPart(show, p) == TvScore(show, p) - TvOtherPoints(show, p)

RestaurantCategoryPart(r, p, jit) ==
    calculateRestaurantMatchScore(r, p, jit) - RestaurantOtherPoints(r, p, jit)

\* The eligible entities that match exactly one preferred category.
TvSingleMatches(p) ==
    { o \in ScoreTvShows : TvGenreMatchCount(o, p) = 1 /\ TvScore(o, p) > 0 }

RestaurantSingleMatches(p, jit) ==
    { o \in ScoreRestaurants :
        CuisineMatchCount(o, p) = 1 /\ calculateRestaurantMatchScore(o, p, jit) > 0 }

TvMatchesTwo ==
    /\ Scored
    /\ sKind = "tv"
    /\ sScore > 0
    /\ ListStated(sPrefs.preferred_genres)
    /\ TvGenreMatchCount(TheEntity, sPrefs) = 2

RestaurantMatchesTwo ==
    /\ Scored
    /\ sKind = "rest"
    /\ sScore > 0
    /\ CuisinesStated(sPrefs)
    /\ CuisineMatchCount(TheEntity, sPrefs) = 2

\* C17: an entity matching two of the user's preferred categories gets a
\* strictly larger category part than an entity matching exactly one, in
\* the restaurant engine as in the TV engine.
C17_OneIncrementPerMatch ==
    /\ TvMatchesTwo =>
          \A o \in TvSingleMatches(sPrefs) :
              sScore - TvOtherPoints(TheEntity, sPrefs) > TvCategoryPart(o, sPrefs)
    /\ RestaurantMatchesTwo =>
          \A o \in RestaurantSingleMatches(sPrefs, sJitter) :
              sScore - RestaurantOtherPoints(TheEntity, sPrefs, sJitter)
                  > RestaurantCategoryPart(o, sPrefs, sJitter)

\* C17 (amended): the TV engine adds one increment of 5 per matching
\* genre, so two matches earn twice what one earns; the restaurant engine
\* adds CUISINE_MATCH_SCORE once for any overlap, so two matching cuisines
\* earn exactly what one earns.
C17_PerMatchForTvFlatForRestaurants ==
    /\ TvMatchesTwo =>
          /\ sScore - TvOtherPoints(TheEntity, sPrefs) = Twentieths(2 * 5)
          /\ \A o \in TvSingleMatches(sPrefs) :
                TvCategoryPart(o, sPrefs) = Twentieths(5)
    /\ RestaurantMatchesTwo =>
          /\ sScore - RestaurantOtherPoints(TheEntity, sPrefs, sJitter)
                = Tenths(CUISINE_MATCH_SCORE)
          /\ \A o \in RestaurantSingleMatches(sPrefs, sJitter) :
                RestaurantCategoryPart(o, sPrefs, sJitter) = Tenths(CUISINE_MATCH_SCORE)

\* A restaurant with two of the user's cuisines scored, while some eligible
\* restaurant has one of them.
C17_Witness ==
    /\ RestaurantMatchesTwo
    /\ RestaurantSingleMatches(sPrefs, sJitter) # {}

\* The score a restaurant has accumulated when the rating step starts (or
\* when the dietary step rejects it), in tenths: 15 for a user open to any
\* cuisine, 30 for a shared cuisine, then 50 for restrictions that are all
\* met, 10 when the user has none.
AccumulatedBeforeRating(r, p) ==
    (IF Len(p.favoriteCuisines) = 0 \/ "Any" \in SeqToSet(p.favoriteCuisines)
        THEN 150
        ELSE IF SeqToSet(r.cuisines) \cap SeqToSet(p.favoriteCuisines) # {}
             THEN 300 ELSE 0)
    + (IF Len(p.dietaryRestrictions) = 0 THEN 100
          ELSE IF UnmetRestrictions(r, p) = {} THEN 500 ELSE 0)

BelowMinRating == Scored /\ sKind = "rest" /\ TheEntity.rating < sPrefs.minRating

\* C28: a restaurant rated below minRating is rejected exactly when its
\* score from the cuisine and dietary steps is below 40, half of
\* CUISINE_MATCH_SCORE + DIETARY_MATCH_SCORE; otherwise it keeps that score
\* plus the jitter, with no rating bonus.
C28_BelowMinRatingRejectedIffWeak ==
    BelowMinRating =>
        /\ sScore = 0 <=> AccumulatedBeforeRating(TheEntity, sPrefs) < 400
        /\ sScore # 0 =>
              /\ sScore > 0
              /\ sScore = AccumulatedBeforeRating(TheEntity, sPrefs) + sJitter

\* A restaurant below the minimum rating kept with exactly 40 points from
\* the cuisine and dietary steps.
C28_Witness ==
    /\ BelowMinRating
    /\ AccumulatedBeforeRating(TheEntity, sPrefs) = 400
    /\ sScore > 0

(***************************************************************************)
(* Specification Spec: one recommendation call, step by step.              *)
(***************************************************************************)
inputVars == << dom, count, prefs, exclude0, popular, noDetails, apiKey >>

\* Mutant of fetchTMDB: the provider is asked without a key too.
fetchTMDB_IgnoreKey(response) == response

\* fetchTMDB: null (here the empty list) when the API key is missing,
\* else what the provider answers.
fetchTMDB(response) == IF ~apiKey THEN << >> ELSE response

\* The results of getPopularTvShows and of getPopularMovies.
getPopularTvShows == fetchTMDB(popular)

getPopularMovies == fetchTMDB(popular)

\* The results of getTMDBCollaborativeRecs (TV) and of
\* getTMDBRecommendations (movie) for a seed.
getTMDBCollaborativeRecs(id) == fetchTMDB(SimilarTo(id))

getTMDBRecommendations(id) == fetchTMDB(SimilarTo(id))

\* getTMDBTvShowDetails answers null.
NoTvShowDetails(id) == ~apiKey \/ id \in noDetails

Init ==
    /\ sKind = "none"
    /\ sPrefs = NoPrefs
    /\ sEntity = Undef
    /\ sJitter = 0
    /\ sScore = -1
    /\ CallIdle
    /\ CatalogIdle
    /\ PromptIdle
    /\ ProviderIdle
    /\ SessionIdle

\* The position at which a phase starts.
PhaseEntry(ph) ==
    CASE ph = "content" -> "content_gate"
      [] ph = "similar" -> "similar_gate"
      [] ph = "popular" -> "popular_gate"
      [] OTHER -> "return"

\* The phase that follows ph in the order the function runs its phases.
PhaseAfter(order, ph) ==
    LET i == CHOOSE k \in 1..Len(order) : order[k] = ph
    IN  IF i < Len(order) THEN order[i + 1] ELSE "return"

EntryAfter(order, ph) == PhaseEntry(PhaseAfter(order, ph))

\* getTvShowRecommendationsForUser: Phase 1, Phase 2, Phase 3.
TvPhaseOrder == << "content", "similar", "popular" >>

\* Mutant of Push: the id is not added to the exclusion set.
Push_ListOnly(id, phase) ==
    /\ recs' = Append(recs, id)
    /\ phaseOf' = Append(phaseOf, phase)
    /\ UNCHANGED exclude

\* recommendations.push(x); exclude.add(x.tmdb_id)
Push(id, phase) ==
    /\ recs' = Append(recs, id)
    /\ phaseOf' = Append(phaseOf, phase)
    /\ exclude' = exclude \cup { id }

NoPush == UNCHANGED << recs, phaseOf, exclude >>

\* recommendations.some(r => r.tmdb_id === x.tmdb_id)
InRecs(id) == id \in SeqToSet(recs)

(***************************************************************************)
(* getTvShowRecommendationsForUser                                         *)
(***************************************************************************)
CallTv ==
    /\ pc = "idle"
    /\ \E p \in TvPrefChoices, n \in CountChoices, ex \in ExcludeChoices,
          pop \in PopularChoices, rs \in RatingChoices,
          nd \in NoDetailsChoices, st \in StoredChoices, key \in BOOLEAN :
          /\ dom' = "tv"
          /\ apiKey' = key
          /\ prefs' = p
          /\ count' = n
          /\ exclude' = ex
          /\ exclude0' = ex
          /\ popular' = pop
          /\ ratings' = rs
          /\ noDetails' = nd
          /\ db' = RatedIds(rs) \cup st
    /\ pc' = PhaseEntry(TvPhaseOrder[1])
    /\ UNCHANGED << recs, phaseOf, cands, seeds, simList, idx, queried, result >>
    /\ UNCHANGED scoreVars
    /\ UNCHANGED << catalogVars, promptVars >>
    /\ UNCHANGED << providerVars, sessionVars >>

\* candidateTvShows: the first 30 popular shows that are not excluded and
\* whose details the provider returns.
TvCandidates ==
    SelectSeq(Slice(getPopularTvShows, 30),
              LAMBDA id : id \notin exclude /\ ~NoTvShowDetails(id))

\* Mutant of getContentBasedTvShowRecommendations: the scored shows are
\* not sorted.
getContentBasedTvShowRecommendations_Unsorted(p, candidateTvShows, n) ==
    LET scoredShows ==
            [ i \in 1..Len(candidateTvShows) |->
                [ id |-> candidateTvShows[i],
                  score |-> TvScore(TvShowDetails(candidateTvShows[i]), p) ] ]
    IN  Ids(Slice(KeepPositive(scoredShows), n))

\* The ids getContentBasedTvShowRecommendations returns, best score first.
getContentBasedTvShowRecommendations(p, candidateTvShows, n) ==
    LET scoredShows ==
            [ i \in 1..Len(candidateTvShows) |->
                [ id |-> candidateTvShows[i],
                  score |-> TvScore(TvShowDetails(candidateTvShows[i]), p) ] ]
    IN  Ids(Slice(SortByScoreDesc(KeepPositive(scoredShows)), n))

\* Phase 1, candidate gathering and scoring.
TvContentGate ==
    /\ pc = "content_gate"
    /\ dom = "tv"
    /\ LET candidateTvShows == TvCandidates
       IN  /\ db' = db \cup SeqToSet(candidateTvShows)
           /\ cands' = IF Len(candidateTvShows) > 0
                       THEN getContentBasedTvShowRecommendations(
                                prefs, candidateTvShows, count)
                       ELSE << >>
    /\ pc' = "content_step"
    /\ UNCHANGED << inputVars, ratings, exclude, recs, phaseOf, seeds, simList,
                    idx, queried, result >>
    /\ UNCHANGED scoreVars
    /\ UNCHANGED << catalogVars, promptVars >>
    /\ UNCHANGED << providerVars, sessionVars >>

\* Mutant of TvContentIsNew: the content loop pushes without looking at the
\* list.
TvContentIsNew_Always(id) == TRUE

TvContentIsNew(id) == ~InRecs(id)

\* Phase 1, one iteration of `for (const rec of contentRecs)`.
TvContentStep ==
    /\ pc = "content_step"
    /\ dom = "tv"
    /\ IF cands = << >> \/ Len(recs) >= count
       THEN /\ pc' = EntryAfter(TvPhaseOrder, "content")
            /\ cands' = << >>
            /\ NoPush
       ELSE /\ pc' = pc
            /\ cands' = Tail(cands)
            /\ IF TvContentIsNew(Head(cands))
               THEN Push(Head(cands), "content")
               ELSE NoPush
    /\ UNCHANGED << inputVars, ratings, db, seeds, simList, idx, queried, result >>
    /\ UNCHANGED scoreVars
    /\ UNCHANGED << catalogVars, promptVars >>
    /\ UNCHANGED << providerVars, sessionVars >>

\* Mutant of TvSeeds: every rated show is a seed.
TvSeeds_All(rs) == SortByScoreDesc(rs)

\* sortedRatings.slice(0, 2)
TvSeeds(rs) == Slice(SortByScoreDesc(rs), 2)

\* Phase 2, the condition under which it is entered.
TvSimilarGate ==
    /\ pc = "similar_gate"
    /\ dom = "tv"
    /\ IF Len(recs) < count /\ Len(ratings) >= MIN_RATINGS_FOR_COLLABORATIVE_TV
       THEN /\ seeds' = TvSeeds(ratings)
            /\ pc' = "similar_seed"
       ELSE /\ seeds' = << >>
            /\ pc' = EntryAfter(TvPhaseOrder, "similar")
    /\ UNCHANGED << inputVars, ratings, exclude, db, recs, phaseOf, cands,
                    simList, idx, queried, result >>
    /\ UNCHANGED scoreVars
    /\ UNCHANGED << catalogVars, promptVars >>
    /\ UNCHANGED << providerVars, sessionVars >>

\* Phase 2, one iteration of `for (const ratedShow of ...)` up to the
\* provider's answer.
TvSimilarSeed ==
    /\ pc = "similar_seed"
    /\ dom = "tv"
    /\ IF seeds = << >> \/ Len(recs) >= count
       THEN /\ pc' = EntryAfter(TvPhaseOrder, "similar")
            /\ seeds' = << >>
            /\ UNCHANGED << simList, queried >>
       ELSE /\ queried' = Append(queried, [ seed |-> Head(seeds).id,
                                            rating |-> Head(seeds).score,
                                            len |-> Len(recs) ])
            /\ simList' = getTMDBCollaborativeRecs(Head(seeds).id)
            /\ seeds' = Tail(seeds)
            /\ pc' = "similar_item"
    /\ UNCHANGED << inputVars, ratings, exclude, db, recs, phaseOf, cands, idx,
                    result >>
    /\ UNCHANGED scoreVars
    /\ UNCHANGED << catalogVars, promptVars >>
    /\ UNCHANGED << providerVars, sessionVars >>

\* Mutant of AfterFailedFetch: a failed detail fetch ends the request.
AfterFailedFetch_Abort(here) == "return"

\* `if (!detailedShow) continue;`: where the loop goes on after a detail
\* fetch that gave nothing.
AfterFailedFetch(here) == here

\* Phase 2, one iteration of `for (const tmdbCollabShow of ...)`.
TvSimilarItem ==
    /\ pc = "similar_item"
    /\ dom = "tv"
    /\ IF simList = << >>
       THEN /\ pc' = "similar_seed"
            /\ UNCHANGED << simList, db >>
            /\ NoPush
       ELSE LET id == Head(simList)
            IN  /\ pc' = IF /\ ~(Len(recs) >= count \/ id \in exclude)
                             /\ NoTvShowDetails(id)
                          THEN AfterFailedFetch(pc)
                          ELSE pc
                /\ simList' = Tail(simList)
                /\ IF Len(recs) >= count \/ id \in exclude
                   THEN UNCHANGED db /\ NoPush
                   ELSE IF NoTvShowDetails(id)
                        THEN UNCHANGED db /\ NoPush
                        ELSE /\ db' = db \cup { id }
                             /\ IF ~InRecs(id)
                                THEN Push(id, "similar")
                                ELSE NoPush
    /\ UNCHANGED << inputVars, ratings, cands, seeds, idx, queried, result >>
    /\ UNCHANGED scoreVars
    /\ UNCHANGED << catalogVars, promptVars >>
    /\ UNCHANGED << providerVars, sessionVars >>

\* Mutant of TvFallbackEntered: the fallback is never run.
TvFallbackEntered_Never == FALSE

TvFallbackEntered == Len(recs) < count /\ getPopularTvShows # << >>

\* Phase 3, the condition under which it is entered.
TvPopularGate ==
    /\ pc = "popular_gate"
    /\ dom = "tv"
    /\ IF TvFallbackEntered
       THEN pc' = "popular_item"
       ELSE pc' = EntryAfter(TvPhaseOrder, "popular")
    /\ idx' = 1
    /\ UNCHANGED << inputVars, ratings, exclude, db, recs, phaseOf, cands,
                    seeds, simList, queried, result >>
    /\ UNCHANGED scoreVars
    /\ UNCHANGED << catalogVars, promptVars >>
    /\ UNCHANGED << providerVars, sessionVars >>

\* Mutant of TvFallbackSkips: the fallback does not consult the exclusion
\* set.
TvFallbackSkips_Full(id) == Len(recs) >= count

TvFallbackSkips(id) == Len(recs) >= count \/ id \in exclude

\* Phase 3, one iteration of `for (const tmdbPopShow of ...)`.
TvPopularItem ==
    /\ pc = "popular_item"
    /\ dom = "tv"
    /\ IF idx > Len(getPopularTvShows)
       THEN /\ pc' = EntryAfter(TvPhaseOrder, "popular")
            /\ UNCHANGED << idx, db >>
            /\ NoPush
       ELSE LET id == getPopularTvShows[idx]
            IN  /\ pc' = IF /\ ~TvFallbackSkips(id)
                             /\ id \notin db
                             /\ NoTvShowDetails(id)
                          THEN AfterFailedFetch(pc)
                          ELSE pc
                /\ idx' = idx + 1
                /\ IF TvFallbackSkips(id)
                   THEN UNCHANGED db /\ NoPush
                   ELSE IF id \in db
                        THEN /\ UNCHANGED db
                             /\ IF ~InRecs(id) THEN Push(id, "popular") ELSE NoPush
                        ELSE IF ~NoTvShowDetails(id)
                             THEN /\ db' = db \cup { id }
                                  /\ IF ~InRecs(id)
                                     THEN Push(id, "popular")
                                     ELSE NoPush
                             ELSE UNCHANGED db /\ NoPush
    /\ UNCHANGED << inputVars, ratings, cands, seeds, simList, queried, result >>
    /\ UNCHANGED scoreVars
    /\ UNCHANGED << catalogVars, promptVars >>
    /\ UNCHANGED << providerVars, sessionVars >>

\* return recommendations.slice(0, count)
TvReturn ==
    /\ pc = "return"
    /\ dom = "tv"
    /\ result' = Slice(recs, count)
    /\ pc' = "done"
    /\ UNCHANGED << inputVars, ratings, exclude, db, recs, phaseOf, cands,
                    seeds, simList, idx, queried >>
    /\ UNCHANGED scoreVars
    /\ UNCHANGED << catalogVars, promptVars >>
    /\ UNCHANGED << providerVars, sessionVars >>

(***************************************************************************)
(* getMovieRecommendationsForUser                                          *)
(***************************************************************************)
\* Mutant of MvPhaseOrder: the order the phases are numbered in.
MvPhaseOrder_ContentFirst == << "content", "similar", "popular" >>

\* The collaborative block, then the content-based block, then the fallback.
MvPhaseOrder == << "similar", "content", "popular" >>

CallMovie ==
    /\ pc = "idle"
    /\ \E n \in CountChoices, ex \in ExcludeChoices, pop \in PopularChoices,
          rs \in RatingChoices, nd \in NoDetailsChoices, st \in StoredChoices,
          key \in BOOLEAN :
          /\ dom' = "movie"
          /\ apiKey' = key
          /\ count' = n
          /\ exclude' = ex
          /\ exclude0' = ex
          /\ popular' = pop
          /\ ratings' = rs
          /\ noDetails' = nd
          /\ db' = RatedIds(rs) \cup st
    /\ pc' = PhaseEntry(MvPhaseOrder[1])
    /\ UNCHANGED << prefs, recs, phaseOf, cands, seeds, simList, idx, queried,
                    result >>
    /\ UNCHANGED scoreVars
    /\ UNCHANGED << catalogVars, promptVars >>
    /\ UNCHANGED << providerVars, sessionVars >>

\* sortedRatings.slice(0, 3)
MvSeeds(rs) == Slice(SortByScoreDesc(rs), 3)

\* The collaborative block, the condition under which it is entered; the
\* sort is in place.
MvSimilarGate ==
    /\ pc = "similar_gate"
    /\ dom = "movie"
    /\ IF Len(ratings) >= MIN_RATINGS_FOR_COLLABORATIVE
       THEN /\ ratings' = SortByScoreDesc(ratings)
            /\ seeds' = MvSeeds(ratings)
            /\ pc' = "similar_seed"
       ELSE /\ UNCHANGED ratings
            /\ seeds' = << >>
            /\ pc' = EntryAfter(MvPhaseOrder, "similar")
    /\ UNCHANGED << inputVars, exclude, db, recs, phaseOf, cands, simList, idx,
                    queried, result >>
    /\ UNCHANGED scoreVars
    /\ UNCHANGED << catalogVars, promptVars >>
    /\ UNCHANGED << providerVars, sessionVars >>

\* One iteration of `for (const ratedMovie of ...)` up to the provider's
\* answer.
MvSimilarSeed ==
    /\ pc = "similar_seed"
    /\ dom = "movie"
    /\ IF seeds = << >>
       THEN /\ pc' = EntryAfter(MvPhaseOrder, "similar")
            /\ UNCHANGED << seeds, simList, queried >>
       ELSE /\ queried' = Append(queried, [ seed |-> Head(seeds).id,
                                            rating |-> Head(seeds).score,
                                            len |-> Len(recs) ])
            /\ simList' = getTMDBRecommendations(Head(seeds).id)
            /\ seeds' = Tail(seeds)
            /\ pc' = "similar_item"
    /\ UNCHANGED << inputVars, ratings, exclude, db, recs, phaseOf, cands, idx,
                    result >>
    /\ UNCHANGED scoreVars
    /\ UNCHANGED << catalogVars, promptVars >>
    /\ UNCHANGED << providerVars, sessionVars >>

\* getMovieByTmdbId(id) || saveMovie(item) answers a movie.
MvStored(id) == id \in db \/ id \notin noDetails

\* One iteration of `for (const tmdbMovie of tmdbRecs.results)`, and the
\* test after the loop.
MvSimilarItem ==
    /\ pc = "similar_item"
    /\ dom = "movie"
    /\ IF simList = << >> \/ Len(recs) >= count
       THEN /\ simList' = << >>
            /\ IF Len(recs) >= count
               THEN seeds' = << >> /\ pc' = EntryAfter(MvPhaseOrder, "similar")
               ELSE UNCHANGED seeds /\ pc' = "similar_seed"
            /\ UNCHANGED db
            /\ NoPush
       ELSE LET id == Head(simList)
            IN  /\ pc' = pc
                /\ simList' = Tail(simList)
                /\ UNCHANGED seeds
                /\ IF id \in exclude
                   THEN UNCHANGED db /\ NoPush
                   ELSE IF MvStored(id)
                        THEN /\ db' = db \cup { id }
                             /\ IF ~InRecs(id) THEN Push(id, "similar") ELSE NoPush
                        ELSE UNCHANGED db /\ NoPush
    /\ UNCHANGED << inputVars, ratings, cands, idx, queried, result >>
    /\ UNCHANGED scoreVars
    /\ UNCHANGED << catalogVars, promptVars >>
    /\ UNCHANGED << providerVars, sessionVars >>

\* getGenresFromUserHighlyRatedMovies(user.id, 3.5)
likedGenres(rs) ==
    UNION { SeqToSet(MovieGenres(rs[i].id)) :
              i \in { k \in 1..Len(rs) : 10 * rs[k].score >= 35 } }

\* The score of one movie: one per genre of it that is a liked genre.
MovieMatchScore(rs, id) ==
    LET g == MovieGenres(id)
    IN  Cardinality({ k \in 1..Len(g) : g[k] \in likedGenres(rs) })

\* The ids getContentBasedRecommendations returns, best score first.
getContentBasedRecommendations(rs, allMoviesFromDB, n) ==
    IF likedGenres(rs) = {}
    THEN << >>
    ELSE LET scoredMovies ==
                 [ i \in 1..Len(allMoviesFromDB) |->
                     [ id |-> allMoviesFromDB[i],
                       score |-> MovieMatchScore(rs, allMoviesFromDB[i]) ] ]
         IN  Ids(Slice(SortByScoreDesc(KeepPositive(scoredMovies)), n))

\* candidateMovies
MvCandidates ==
    SelectSeq(getPopularMovies, LAMBDA id : id \notin exclude /\ MvStored(id))

\* The content-based block: its condition, candidate gathering and scoring.
MvContentGate ==
    /\ pc = "content_gate"
    /\ dom = "movie"
    /\ IF Len(recs) < count /\ Len(ratings) > 0
       THEN LET candidateMovies == MvCandidates
            IN  /\ db' = db \cup SeqToSet(candidateMovies)
                /\ cands' = getContentBasedRecommendations(
                                ratings, candidateMovies, count - Len(recs))
                /\ pc' = "content_step"
       ELSE /\ UNCHANGED << db, cands >>
            /\ pc' = EntryAfter(MvPhaseOrder, "content")
    /\ UNCHANGED << inputVars, ratings, exclude, recs, phaseOf, seeds, simList,
                    idx, queried, result >>
    /\ UNCHANGED scoreVars
    /\ UNCHANGED << catalogVars, promptVars >>
    /\ UNCHANGED << providerVars, sessionVars >>

\* One iteration of `for (const rec of contentRecs)`.
MvContentStep ==
    /\ pc = "content_step"
    /\ dom = "movie"
    /\ IF cands = << >> \/ Len(recs) >= count
       THEN /\ pc' = EntryAfter(MvPhaseOrder, "content")
            /\ cands' = << >>
            /\ NoPush
       ELSE /\ pc' = pc
            /\ cands' = Tail(cands)
            /\ IF ~InRecs(Head(cands)) /\ Head(cands) \notin exclude
               THEN Push(Head(cands), "content")
               ELSE NoPush
    /\ UNCHANGED << inputVars, ratings, db, seeds, simList, idx, queried, result >>
    /\ UNCHANGED scoreVars
    /\ UNCHANGED << catalogVars, promptVars >>
    /\ UNCHANGED << providerVars, sessionVars >>

\* The fallback block, the condition under which it is entered.
MvPopularGate ==
    /\ pc = "popular_gate"
    /\ dom = "movie"
    /\ IF Len(recs) < count /\ getPopularMovies # << >>
       THEN pc' = "popular_item"
       ELSE pc' = EntryAfter(MvPhaseOrder, "popular")
    /\ idx' = 1
    /\ UNCHANGED << inputVars, ratings, exclude, db, recs, phaseOf, cands,
                    seeds, simList, queried, result >>
    /\ UNCHANGED scoreVars
    /\ UNCHANGED << catalogVars, promptVars >>
    /\ UNCHANGED << providerVars, sessionVars >>

\* Mutant of MvFallbackFull: the fallback loop has no break.
MvFallbackFull_Never == FALSE

MvFallbackFull == Len(recs) >= count

\* One iteration of `for (const tmdbMovie of popularTmdb.results)`.
MvPopularItem ==
    /\ pc = "popular_item"
    /\ dom = "movie"
    /\ IF idx > Len(getPopularMovies) \/ MvFallbackFull
       THEN /\ pc' = EntryAfter(MvPhaseOrder, "popular")
            /\ UNCHANGED << idx, db >>
            /\ NoPush
       ELSE LET id == getPopularMovies[idx]
            IN  /\ pc' = pc
                /\ idx' = idx + 1
                /\ IF id \in exclude
                   THEN UNCHANGED db /\ NoPush
                   ELSE IF MvStored(id)
                        THEN /\ db' = db \cup { id }
                             /\ IF ~InRecs(id) THEN Push(id, "popular") ELSE NoPush
                        ELSE UNCHANGED db /\ NoPush
    /\ UNCHANGED << inputVars, ratings, cands, seeds, simList, queried, result >>
    /\ UNCHANGED scoreVars
    /\ UNCHANGED << catalogVars, promptVars >>
    /\ UNCHANGED << providerVars, sessionVars >>

\* return recommendations.slice(0, count)
MvReturn ==
    /\ pc = "return"
    /\ dom = "movie"
    /\ result' = Slice(recs, count)
    /\ pc' = "done"
    /\ UNCHANGED << inputVars, ratings, exclude, db, recs, phaseOf, cands,
                    seeds, simList, idx, queried >>
    /\ UNCHANGED scoreVars
    /\ UNCHANGED << catalogVars, promptVars >>
    /\ UNCHANGED << providerVars, sessionVars >>

(***************************************************************************)
(* getRestaurantRecommendations                                            *)
(***************************************************************************)
\* scoredRestaurants: [id, score] of the restaurants that are not excluded
\* and score above 0, best score first (jit[id] is the draw for id).
scoredRestaurants(p, allRestaurants, excludeRestaurantIds, jit) ==
    LET kept == SelectSeq(allRestaurants,
                          LAMBDA r : r.id \notin excludeRestaurantIds)
        scored == [ i \in 1..Len(kept) |->
                      [ id |-> kept[i].id,
                        score |-> calculateRestaurantMatchScore(
                                      kept[i], p, jit[kept[i].id]) ] ]
    IN  SortByScoreDesc(KeepPositive(scored))

getRestaurantRecommendations ==
    /\ pc = "idle"
    /\ \E p \in RestaurantPrefChoices, ex \in ExcludeChoices, jit \in JitterDraws :
          /\ dom' = "rest"
          /\ prefs' = p
          /\ exclude' = ex
          /\ exclude0' = ex
          /\ cands' = scoredRestaurants(p, RestaurantCatalog, ex, jit)
          /\ result' = Ids(cands')
    /\ pc' = "done"
    /\ UNCHANGED << count, ratings, popular, noDetails, apiKey, db, recs,
                    phaseOf, seeds, simList, idx, queried >>
    /\ UNCHANGED scoreVars
    /\ UNCHANGED << catalogVars, promptVars >>
    /\ UNCHANGED << providerVars, sessionVars >>

Next ==
    \/ CallTv
    \/ TvContentGate
    \/ TvContentStep
    \/ TvSimilarGate
    \/ TvSimilarSeed
    \/ TvSimilarItem
    \/ TvPopularGate
    \/ TvPopularItem
    \/ TvReturn
    \/ CallMovie
    \/ MvSimilarGate
    \/ MvSimilarSeed
    \/ MvSimilarItem
    \/ MvContentGate
    \/ MvContentStep
    \/ MvPopularGate
    \/ MvPopularItem
    \/ MvReturn
    \/ getRestaurantRecommendations

Spec == Init /\ [][Next]_vars

(***************************************************************************)
(* Claims about a recommendation call (specification Spec).                *)
(***************************************************************************)
Done == pc = "done"

Orchestrated == dom \in { "movie", "tv" }

NoRepeats(s) == \A i, j \in 1..Len(s) : i # j => s[i] # s[j]

\* A show fails one of the required constraints of the preference record:
\* language, first-air year, episode duration or vote average.
TvHardRejected(show, p) ==
    ~(/\ TvLanguageOk(show, p)
      /\ TvYearOk(show, p)
      /\ TvDurationOk(show, p)
      /\ TvVoteOk(show, p))

\* C1: the list a TV recommendation call returns contains no show that the
\* scoring engine hard-rejects under the call's preferences, whichever phase
\* added it.
C1_NoHardRejectedShowReturned ==
    (Done /\ dom = "tv") =>
        \A i \in 1..Len(result) :
            ~TvHardRejected(TvShowDetails(result[i]), prefs)

\* C5: in every domain, no id that was in the exclusion set at call time is
\* in the accumulated list at any point, nor in the returned list.
C5_ExcludedNeverReturned ==
    /\ SeqToSet(recs) \cap exclude0 = {}
    /\ Done => SeqToSet(result) \cap exclude0 = {}

\* A TV call whose fallback phase walked over an excluded id and returned
\* something.
C5_Witness ==
    /\ Done
    /\ dom = "tv"
    /\ exclude0 \cap SeqToSet(popular) # {}
    /\ \E i \in 1..Len(phaseOf) : phaseOf[i] = "popular"

\* C6: in each of the three domains at most count entities (5 for the
\* restaurant call, which takes no count) are accumulated and returned.
C6_AtMostCountInEveryDomain ==
    /\ Orchestrated => Len(recs) <= count /\ Len(result) <= count
    /\ (Done /\ dom = "rest") => Len(result) <= DefaultCount

\* The restaurants a restaurant call is to return: not excluded, score above
\* 0 (the jitter never decides whether a score is 0).
EligibleRestaurants ==
    { id \in RestaurantIds \ exclude0 :
        calculateRestaurantMatchScore(RestaurantById(id), prefs, 0) > 0 }

\* C6 (amended): the movie and TV calls never accumulate nor return more
\* than count entities; the restaurant call takes no count and returns every
\* restaurant that is not excluded and scores above 0.
C6_CountCapsMovieAndTvOnly ==
    /\ Orchestrated => Len(recs) <= count /\ Len(result) <= count
    /\ (Done /\ dom = "rest") =>
          /\ SeqToSet(result) = EligibleRestaurants
          /\ Len(result) = Cardinality(EligibleRestaurants)

\* A restaurant call that returned more than 5 restaurants.
C6_Witness == Done /\ dom = "rest" /\ Len(result) > DefaultCount

\* The seeds the similarity phase takes from the rating rows.
SeedsOf(d, rs) ==
    IF d = "tv"
    THEN IF Len(rs) >= MIN_RATINGS_FOR_COLLABORATIVE_TV THEN TvSeeds(rs) ELSE << >>
    ELSE IF Len(rs) >= MIN_RATINGS_FOR_COLLABORATIVE THEN MvSeeds(rs) ELSE << >>

\* The unseen entities the phases can obtain: the provider's similar items
\* for the seeds and the popular list, as far as the entity can be loaded
\* (TV: details for a similar item, details or a catalog row for a popular
\* one; movie: a catalog row or a successful save), minus the exclusion set
\* at call time.
Obtainable ==
    LET seedIds == { s.id : s \in SeqToSet(SeedsOf(dom, ratings)) }
        similar == UNION { SeqToSet(fetchTMDB(SimilarTo(s))) : s \in seedIds }
        loadableSimilar ==
            IF dom = "tv" THEN { id \in similar : ~NoTvShowDetails(id) }
            ELSE { id \in similar : MvStored(id) }
        loadablePopular ==
            { id \in SeqToSet(fetchTMDB(popular)) :
                IF dom = "tv" THEN id \in db \/ ~NoTvShowDetails(id)
                ELSE MvStored(id) }
    IN  (loadableSimilar \cup loadablePopular) \ exclude0

\* C7: a movie or TV call returns exactly count entities whenever the
\* phases can obtain at least count distinct unseen entities.
C7_ExactlyCountWhenObtainable ==
    (Done /\ Orchestrated /\ Cardinality(Obtainable) >= count) =>
        Len(result) = count

\* A TV call with the default count that needed the fallback to reach it.
C7_Witness ==
    /\ Done
    /\ dom = "tv"
    /\ count = DefaultCount
    /\ Cardinality(Obtainable) >= count
    /\ \E i \in 1..Len(phaseOf) : phaseOf[i] = "popular"

\* C8: the list of a movie or TV call never holds the same external id
\* twice, while it is accumulated and when it is returned.
C8_NoDuplicateIds ==
    Orchestrated => NoRepeats(recs) /\ NoRepeats(result)

\* A TV call over a popular list that repeats an id, which returned that
\* id.
C8_Witness ==
    /\ Done
    /\ dom = "tv"
    /\ ~NoRepeats(popular)
    /\ \E i, j \in 1..Len(popular) :
          i # j /\ popular[i] = popular[j] /\ popular[i] \in SeqToSet(result)

\* The position of a phase in an order of phases.
Rank(order, ph) == CHOOSE k \in 1..Len(order) : order[k] = ph

\* The items of the accumulated list appear in the order of the phases.
InPhaseOrder(order) ==
    \A i, j \in 1..Len(phaseOf) :
        i < j => Rank(order, phaseOf[i]) <= Rank(order, phaseOf[j])

\* C9: in the movie and in the TV call the phases run content-based, then
\* similarity, then popular fallback, so that content items precede
\* similarity items, which precede fallback items.
C9_ContentThenSimilarInBothDomains ==
    Orchestrated => InPhaseOrder(<< "content", "similar", "popular" >>)

\* C9 (amended): the TV call runs content-based, similarity, popular
\* fallback; the movie call runs similarity, content-based, popular
\* fallback; in each the items appear in the order of its phases.
C9_PhaseOrderPerDomain ==
    /\ dom = "tv" => InPhaseOrder(<< "content", "similar", "popular" >>)
    /\ dom = "movie" => InPhaseOrder(<< "similar", "content", "popular" >>)

\* A movie call that returned a similarity item and a content item.
C9_Witness ==
    /\ Done
    /\ dom = "movie"
    /\ \E i, j \in 1..Len(result) :
          phaseOf[i] = "similar" /\ phaseOf[j] = "content"

MinRatings(d) ==
    IF d = "tv" THEN MIN_RATINGS_FOR_COLLABORATIVE_TV
    ELSE MIN_RATINGS_FOR_COLLABORATIVE

\* The most seeds a similarity phase uses.
MaxSeeds(d) == IF d = "tv" THEN 2 ELSE 3

\* C10: a 'recommended for X' request is issued only with at least the
\* minimum number of rating rows and a list short of count; at most 2 (TV)
\* or 3 (movie) seeds are queried, in non-increasing rating order, and each
\* is rated at least as high as every rated item that is not queried.
C10_SimilarityRequestsGated ==
    /\ Len(queried) <= MaxSeeds(dom)
    /\ \A i \in 1..Len(queried) :
          /\ Len(ratings) >= MinRatings(dom)
          /\ queried[i].len < count
          /\ \A j \in 1..Len(queried) :
                i < j => queried[i].rating >= queried[j].rating
          /\ \A k \in 1..Len(ratings) :
                (\A j \in 1..Len(queried) : queried[j].seed # ratings[k].id)
                    => ratings[k].score <= queried[i].rating

\* A TV call with four rating rows that queried two seeds.
C10_Witness ==
    /\ Done
    /\ dom = "tv"
    /\ Len(ratings) = 4
    /\ Len(queried) = 2

\* The score the engine of the domain gives an entity, without jitter.
BaseScore(id) ==
    CASE dom = "rest" -> calculateRestaurantMatchScore(RestaurantById(id), prefs, 0)
      [] dom = "tv" -> TvScore(TvShowDetails(id), prefs)
      [] OTHER -> MovieMatchScore(ratings, id)

\* C13: in the list a call returns, in every domain and across all phases,
\* no entity is followed by one whose score without jitter is higher, but
\* for restaurant inversions within the jitter magnitude 2.
C13_AdjacentScoresOrderedAcrossPhases ==
    Done =>
        \A i \in 1..(Len(result) - 1) :
            BaseScore(result[i + 1]) - BaseScore(result[i])
                <= (IF dom = "rest" THEN Tenths(2) ELSE 0)

\* C13 (amended): the restaurant list is in non-increasing order of score
\* but for inversions smaller than the jitter magnitude 2; in a movie or TV
\* list the items of the content-based phase are in non-increasing order of
\* score among themselves, the items of the other phases are not scored.
C13_OrderedWithinScoredItems ==
    /\ (Done /\ dom = "rest") =>
          \A i \in 1..(Len(result) - 1) :
              BaseScore(result[i + 1]) - BaseScore(result[i]) < Tenths(2)
    /\ Orchestrated =>
          \A i, j \in 1..Len(recs) :
              (i < j /\ phaseOf[i] = "content" /\ phaseOf[j] = "content")
                  => BaseScore(recs[i]) >= BaseScore(recs[j])

\* A TV call that returned two content items of different score and, after
\* them, an item of a later phase that scores above its predecessor.
C13_Witness ==
    /\ Done
    /\ dom = "tv"
    /\ \E i \in 1..(Len(result) - 1) :
          /\ phaseOf[i] = "content"
          /\ phaseOf[i + 1] = "content"
          /\ BaseScore(result[i]) > BaseScore(result[i + 1])
    /\ \E i \in 1..(Len(result) - 1) :
          /\ phaseOf[i + 1] # "content"
          /\ BaseScore(result[i + 1]) > BaseScore(result[i])

\* C14: whatever the jitter draws, the restaurant recommender returns the
\* same set of restaurants for the same preferences, catalog and exclusion
\* set; the draws change the order only.
C14_JitterAffectsOrderOnly ==
    (Done /\ dom = "rest") =>
        \A jit \in JitterDraws :
            SeqToSet(Ids(scoredRestaurants(prefs, RestaurantCatalog, exclude0, jit)))
                = SeqToSet(result)

\* A restaurant call that rejected a restaurant and whose list would come in
\* another order under other draws.
C14_Witness ==
    /\ Done
    /\ dom = "rest"
    /\ SeqToSet(result) # RestaurantIds \ exclude0
    /\ \E jit \in JitterDraws :
          Ids(scoredRestaurants(prefs, RestaurantCatalog, exclude0, jit)) # result

\* Restaurant r is in the rating range the preference record asks for.
InRatingRange(r, p) == r.rating >= p.minRating /\ r.rating <= Tenths(5)

\* With cuisines and restrictions stated: a restaurant missing a
\* restriction is not returned, and of two returned restaurants that meet
\* the restrictions and the rating range, one sharing a cuisine with the
\* user comes before one sharing none.
CuisineSharersFirst ==
    /\ \A id \in RestaurantIds :
          ~meetsAllRestrictions(RestaurantById(id), prefs)
              => id \notin SeqToSet(result)
    /\ \A i, j \in 1..Len(result) :
          LET a == RestaurantById(result[i])
              b == RestaurantById(result[j])
          IN  (/\ InRatingRange(a, prefs)
               /\ InRatingRange(b, prefs)
               /\ arrayIntersects(a.cuisines, prefs.favoriteCuisines)
               /\ ~arrayIntersects(b.cuisines, prefs.favoriteCuisines))
                  => i < j

\* C15: for a user with non-empty favorite cuisines and non-empty dietary
\* restrictions, restaurants missing a restriction are absent and cuisine
\* sharers rank before non-sharers, for every jitter draw.
C15_CuisineSharersFirstWhenNonEmpty ==
    (/\ Done
     /\ dom = "rest"
     /\ Len(prefs.favoriteCuisines) > 0
     /\ Len(prefs.dietaryRestrictions) > 0) => CuisineSharersFirst

\* C15 (amended): the same, for favorite cuisines that are non-empty and do
\* not contain "Any" (with "Any" in the list every restaurant earns the same
\* cuisine points and the rating decides).
C15_CuisineSharersFirstWhenStated ==
    (/\ Done
     /\ dom = "rest"
     /\ CuisinesStated(prefs)
     /\ Len(prefs.dietaryRestrictions) > 0) => CuisineSharersFirst

\* A restaurant call with stated cuisines and restrictions that dropped a
\* restaurant and returned a cuisine sharer before a better rated
\* non-sharer.
C15_Witness ==
    /\ Done
    /\ dom = "rest"
    /\ CuisinesStated(prefs)
    /\ Len(prefs.dietaryRestrictions) > 0
    /\ \E id \in RestaurantIds \ exclude0 : id \notin SeqToSet(result)
    /\ \E i, j \in 1..Len(result) :
          LET a == RestaurantById(result[i])
              b == RestaurantById(result[j])
          IN  /\ i < j
              /\ a.rating < b.rating
              /\ InRatingRange(a, prefs)
              /\ arrayIntersects(a.cuisines, prefs.favoriteCuisines)
              /\ ~arrayIntersects(b.cuisines, prefs.favoriteCuisines)

\* Restaurant preferences with nothing stated: no cuisines, no
\* restrictions and the lowest minimum rating, 1.0.
RestaurantPrefsUnset ==
    prefs = [ favoriteCuisines |-> << >>,
              dietaryRestrictions |-> << >>,
              minRating |-> 10 ]

\* C16: with restaurant preferences entirely unset, every restaurant that
\* is not excluded is returned (so scored above 0), the ones stored with
\* the default rating 0 included.
C16_UnsetPreferencesReturnEverything ==
    (Done /\ dom = "rest" /\ RestaurantPrefsUnset) =>
        /\ SeqToSet(result) = RestaurantIds \ exclude0
        /\ \A i \in 1..Len(cands) : cands[i].score > 0

\* The restaurants a finished restaurant call returned.
ReturnedRestaurants == { RestaurantById(id) : id \in SeqToSet(result) }

C29_ExclusionSetGrowsByReturnedIds ==
    /\ (Orchestrated /\ pc # "idle") =>
          exclude = exclude0 \cup SeqToSet(recs)
    /\ (Orchestrated /\ Done) =>
          exclude = exclude0 \cup SeqToSet(result)
    /\ (Done /\ dom = "rest") => exclude = exclude0

\* A finished TV call that started with a non-empty exclusion set and
\* returned shows from two phases.
C29_Witness ==
    /\ Done
    /\ dom = "tv"
    /\ exclude0 # {}
    /\ Len(result) >= 2
    /\ \E i, j \in 1..Len(phaseOf) : phaseOf[i] # phaseOf[j]

\* A detail fetch of the finished TV call gave nothing for a popular show
\* that is neither excluded nor in the catalog.
TvFetchFailed(id) ==
    /\ id \in SeqToSet(getPopularTvShows)
    /\ id \in noDetails
    /\ id \notin db
    /\ id \notin exclude0

\* C22: a candidate whose detail fetch gives nothing is skipped and the
\* request goes on: a show without details is returned only from its
\* catalog row by the fallback, and the call still returns every entity
\* the phases can obtain, up to count.
C22_FailedFetchSkippedNotFatal ==
    (Done /\ Orchestrated) =>
        /\ \A i \in 1..Len(result) :
              (dom = "tv" /\ NoTvShowDetails(result[i])) =>
                  result[i] \in db /\ phaseOf[i] = "popular"
        /\ \/ Len(result) = count
           \/ Obtainable \subseteq SeqToSet(result)

\* A TV call with a key in which the detail fetch failed for a popular
\* show and a show later in the popular list was returned by the fallback.
C22_Witness ==
    /\ Done
    /\ dom = "tv"
    /\ apiKey
    /\ \E i, j \in 1..Len(popular), k \in 1..Len(result) :
          /\ i < j
          /\ TvFetchFailed(popular[i])
          /\ result[k] = popular[j]
          /\ phaseOf[k] = "popular"

\* The places the Google Places search may answer with.
GoogleResponses == { << >>, << 1 >>, << 1, 2 >> }

\* fetchRestaurantsFromGooglePlaces: the empty list when the key is
\* missing, else the places found.
fetchRestaurantsFromGooglePlaces(key, places) == IF ~key THEN << >> ELSE places

\* Every provider call made without a key answers 'no data'.
NoDataWithoutKey ==
    /\ getPopularTvShows = << >>
    /\ getPopularMovies = << >>
    /\ \A id \in 1..6 :
          /\ getTMDBCollaborativeRecs(id) = << >>
          /\ getTMDBRecommendations(id) = << >>
          /\ NoTvShowDetails(id)
    /\ \A places \in GoogleResponses :
          fetchRestaurantsFromGooglePlaces(FALSE, places) = << >>

\* C23: without an API key every provider call answers 'no data'; a movie
\* or TV call then never stops before it returns, returns an empty list and
\* leaves the catalog as it was.
C23_NoKeyNoDataNoChange ==
    /\ [](~apiKey => /\ NoDataWithoutKey
                     /\ recs = << >>
                     /\ (pc # "idle" /\ ~Done) => ENABLED Next
                     /\ (Done /\ Orchestrated) => result = << >>)
    /\ [][(~apiKey /\ pc # "idle") => db' = db]_vars

\* A finished TV call without a key, for a user with two rated shows and a
\* provider that has popular shows.
C23_Witness ==
    /\ Done
    /\ dom = "tv"
    /\ ~apiKey
    /\ popular # << >>
    /\ Len(ratings) >= MIN_RATINGS_FOR_COLLABORATIVE_TV
    /\ Len(queried) > 0

(***************************************************************************)
(* Specification SpecCatalog: upserts into the three catalog tables.       *)
(***************************************************************************)
\* The most upserts in one behaviour.
MaxUpserts == 3

\* What the provider mapping hands to saveRestaurantToDb.
RestaurantData ==
    [ googlePlaceId : ExternalIds, name : { "A", "B" }, rating : { 40, 45 } ]

\* What the provider hands to saveMovie / saveTvShow: a detail answer has
\* genres, a list item has genre_ids (99 is not in the provider's genre
\* list).
TmdbData ==
    [ id : ExternalIds, vote_average : { 60, 80 },
      genres : { << >> }, genre_ids : { << 35, 99 >> } ]
    \cup
    [ id : ExternalIds, vote_average : { 60, 80 },
      genres : { << "Drama" >> }, genre_ids : { << >>, << 35 >> } ]

\* getMovieGenreList / getTvShowGenreList: the names of the known genre ids.
GenreName(id) ==
    CASE id = 18 -> << "Drama" >>
      [] id = 35 -> << "Comedy" >>
      [] OTHER -> Undef

\* mapMovieGenreIdsToObjects / mapTvGenreIdsToObjects
RECURSIVE mapGenreIdsToObjects(_)
mapGenreIdsToObjects(genre_ids) ==
    IF genre_ids = << >> THEN << >>
    ELSE (IF IsSet(GenreName(Head(genre_ids)))
          THEN << Val(GenreName(Head(genre_ids))) >>
          ELSE << >>) \o mapGenreIdsToObjects(Tail(genre_ids))

\* ensureFullMovieGenreObjects / ensureFullTvGenreObjects
ensureFullGenreObjects(data) ==
    IF Len(data.genres) > 0 THEN data.genres
    ELSE IF Len(data.genre_ids) > 0 THEN mapGenreIdsToObjects(data.genre_ids)
    ELSE << >>

\* SELECT * FROM <table> WHERE <external id column> = e: << row >> or << >>.
Existing(k, e) == SelectSeq(tables[k], LAMBDA row : row.ext = e)

Upserts == IF saved = << >> THEN 0 ELSE Val(saved).n

\* What an upsert leaves in the ghost variables.
Returned(k, data, row) ==
    /\ saved' = << [ kind |-> k, data |-> data, row |-> row, n |-> Upserts + 1 ] >>
    /\ firstId' = IF firstId[k][row.ext] = 0
                  THEN [ firstId EXCEPT ![k][row.ext] = row.id ]
                  ELSE firstId

Insert(k, row) ==
    /\ tables' = [ tables EXCEPT ![k] = Append(@, row) ]
    /\ seq' = [ seq EXCEPT ![k] = row.id ]

\* UPDATE <table> SET ... WHERE <external id column> = row.ext
Update(k, row) ==
    /\ tables' = [ tables EXCEPT ![k] =
                     [ i \in 1..Len(@) |-> IF @[i].ext = row.ext THEN row ELSE @[i] ] ]
    /\ UNCHANGED seq

saveRestaurantToDb ==
    /\ Upserts < MaxUpserts
    /\ \E restaurantData \in RestaurantData :
          LET existing == Existing("rest", restaurantData.googlePlaceId)
          IN  IF IsSet(existing)
              THEN /\ UNCHANGED << tables, seq >>
                   /\ Returned("rest", restaurantData, Val(existing))
              ELSE LET row == [ id |-> seq["rest"] + 1,
                                ext |-> restaurantData.googlePlaceId,
                                name |-> restaurantData.name,
                                rating |-> restaurantData.rating ]
                   IN  /\ Insert("rest", row)
                       /\ Returned("rest", restaurantData, row)
    /\ UNCHANGED << scoreVars, callVars, promptVars >>
    /\ UNCHANGED << providerVars, sessionVars >>

\* Mutant of MovieExisting: the lookup before the write finds nothing.
MovieExisting_None(e) == << >>

MovieExisting(e) == Existing("movie", e)

\* The row a movie / TV upsert writes under local id n.
TmdbRow(n, data) ==
    [ id |-> n, ext |-> data.id, vote_average |-> data.vote_average,
      genres |-> ensureFullGenreObjects(data) ]

saveMovie ==
    /\ Upserts < MaxUpserts
    /\ \E movieDataFromService \in TmdbData :
          LET existingMovie == MovieExisting(movieDataFromService.id)
          IN  IF IsSet(existingMovie)
              THEN LET row == TmdbRow(Val(existingMovie).id, movieDataFromService)
                   IN  /\ Update("movie", row)
                       /\ Returned("movie", movieDataFromService, row)
              ELSE LET row == TmdbRow(seq["movie"] + 1, movieDataFromService)
                   IN  /\ Insert("movie", row)
                       /\ Returned("movie", movieDataFromService, row)
    /\ UNCHANGED << scoreVars, callVars, promptVars >>
    /\ UNCHANGED << providerVars, sessionVars >>

saveTvShow ==
    /\ Upserts < MaxUpserts
    /\ \E tvShowData \in TmdbData :
          LET existing == Existing("tv", tvShowData.id)
          IN  IF IsSet(existing)
              THEN LET row == TmdbRow(Val(existing).id, tvShowData)
                   IN  /\ Update("tv", row)
                       /\ Returned("tv", tvShowData, row)
              ELSE LET row == TmdbRow(seq["tv"] + 1, tvShowData)
                   IN  /\ Insert("tv", row)
                       /\ Returned("tv", tvShowData, row)
    /\ UNCHANGED << scoreVars, callVars, promptVars >>
    /\ UNCHANGED << providerVars, sessionVars >>

InitCatalog ==
    /\ sKind = "none"
    /\ sPrefs = NoPrefs
    /\ sEntity = Undef
    /\ sJitter = 0
    /\ sScore = -1
    /\ CallIdle
    /\ CatalogIdle
    /\ PromptIdle
    /\ ProviderIdle
    /\ SessionIdle

NextCatalog == saveRestaurantToDb \/ saveMovie \/ saveTvShow

SpecCatalog == InitCatalog /\ [][NextCatalog]_vars

(***************************************************************************)
(* Claims about the catalogs (specification SpecCatalog).                  *)
(***************************************************************************)
\* C11: each catalog holds exactly one row per external id (and per local
\* id), and every upsert of an external id returns the local id that the
\* first upsert of it returned.
C11_OneRecordPerExternalId ==
    /\ \A k \in Catalogs :
          \A i, j \in 1..Len(tables[k]) :
              i # j => /\ tables[k][i].ext # tables[k][j].ext
                       /\ tables[k][i].id # tables[k][j].id
    /\ IsSet(saved) =>
          Val(saved).row.id = firstId[Val(saved).kind][Val(saved).row.ext]

\* Three upserts, all of the same movie.
C11_Witness ==
    /\ IsSet(saved)
    /\ Val(saved).n = 3
    /\ Val(saved).kind = "movie"
    /\ seq = [ k \in Catalogs |-> IF k = "movie" THEN 1 ELSE 0 ]

\* The row stored for the external id of the last upsert.
StoredRow == Val(Existing(Val(saved).kind, Val(saved).row.ext))

\* C12: after an upsert the row stored for its external id carries the
\* attributes of the data just supplied, in all three catalogs.
C12_UpsertRefreshesAttributes ==
    IsSet(saved) =>
        IF Val(saved).kind = "rest"
        THEN /\ StoredRow.name = Val(saved).data.name
             /\ StoredRow.rating = Val(saved).data.rating
        ELSE /\ StoredRow.vote_average = Val(saved).data.vote_average
             /\ StoredRow.genres = ensureFullGenreObjects(Val(saved).data)

(***************************************************************************)
(* Specification SpecPrompt: the preference prompts of the three CLIs.     *)
(* A typed line is a sequence of one-character strings; a list item is     *)
(* such a sequence too.  Ratings are in tenths.                            *)
(***************************************************************************)
RECURSIVE TrimStart(_)
TrimStart(s) ==
    IF s # << >> /\ Head(s) = " " THEN TrimStart(Tail(s)) ELSE s

RECURSIVE TrimEnd(_)
TrimEnd(s) ==
    IF s # << >> /\ s[Len(s)] = " " THEN TrimEnd(SubSeq(s, 1, Len(s) - 1)) ELSE s

\* String.prototype.trim.
Trim(s) == TrimEnd(TrimStart(s))

\* String.prototype.split(','): cur is the piece being read.
RECURSIVE SplitFrom(_, _)
SplitFrom(s, cur) ==
    IF s = << >> THEN << cur >>
    ELSE IF Head(s) = "," THEN << cur >> \o SplitFrom(Tail(s), << >>)
    ELSE SplitFrom(Tail(s), Append(cur, Head(s)))

Split(s) == SplitFrom(s, << >>)

\* String.prototype.toLowerCase, character by character.
toLowerCase(s) ==
    [ i \in 1..Len(s) |->
        CASE s[i] = "A" -> "a"
          [] s[i] = "E" -> "e"
          [] s[i] = "N" -> "n"
          [] OTHER -> s[i] ]

\* str.split(',').map(s => s.trim()).filter(Boolean)
SplitTrimFilter(str) ==
    LET pieces == Split(str)
        trimmed == [ i \in 1..Len(pieces) |-> Trim(pieces[i]) ]
    IN  SelectSeq(trimmed, LAMBDA x : x # << >>)

\* str.split(',').map(s => s.trim().toLowerCase()).filter(Boolean)
SplitTrimLowerFilter(str) ==
    LET pieces == Split(str)
        trimmed == [ i \in 1..Len(pieces) |-> toLowerCase(Trim(pieces[i])) ]
    IN  SelectSeq(trimmed, LAMBDA x : x # << >>)

DigitChars == << "0", "1", "2", "3", "4", "5", "6", "7", "8", "9" >>

IsDigit(c) == \E n \in 1..10 : DigitChars[n] = c

DigitVal(c) == (CHOOSE n \in 1..10 : DigitChars[n] = c) - 1

\* The longest prefix of s made of digits.
RECURSIVE DigitsPrefix(_)
DigitsPrefix(s) ==
    IF s # << >> /\ IsDigit(Head(s))
    THEN << Head(s) >> \o DigitsPrefix(Tail(s))
    ELSE << >>

RECURSIVE DigitsValue(_, _)
DigitsValue(ds, acc) ==
    IF ds = << >> THEN acc ELSE DigitsValue(Tail(ds), 10 * acc + DigitVal(Head(ds)))

\* parseInt: leading blanks skipped, an optional sign, then the digits up
\* to the first other character; NaN (Undef here) when there is no digit.
parseInt(s) ==
    LET t == TrimStart(s)
        signed == t # << >> /\ Head(t) \in { "-", "+" }
        body == IF signed THEN Tail(t) ELSE t
        ds == DigitsPrefix(body)
        n == DigitsValue(ds, 0)
    IN  IF ds = << >> THEN Undef
        ELSE IF signed /\ Head(t) = "-" THEN << 0 - n >> ELSE << n >>

\* parseFloat, in tenths: as parseInt, with an optional fraction of which
\* the first digit is kept; NaN (Undef here) when there is no digit.
parseFloat(s) ==
    LET t == TrimStart(s)
        signed == t # << >> /\ Head(t) \in { "-", "+" }
        body == IF signed THEN Tail(t) ELSE t
        ds == DigitsPrefix(body)
        rest == SubSeq(body, Len(ds) + 1, Len(body))
        fs == IF rest # << >> /\ Head(rest) = "." THEN DigitsPrefix(Tail(rest))
              ELSE << >>
        n == 10 * DigitsValue(ds, 0) + (IF fs = << >> THEN 0 ELSE DigitVal(Head(fs)))
    IN  IF ds = << >> /\ fs = << >> THEN Undef
        ELSE IF signed /\ Head(t) = "-" THEN << 0 - n >> ELSE << n >>

\* JSON.stringify of a list of strings.
RECURSIVE JoinQuoted(_)
JoinQuoted(list) ==
    IF list = << >> THEN << >>
    ELSE << "\"" >> \o Head(list) \o << "\"" >>
         \o (IF Len(list) > 1 THEN << "," >> \o JoinQuoted(Tail(list)) ELSE << >>)

JSON_stringify(list) == << "[" >> \o JoinQuoted(list) \o << "]" >>

\* JSON.parse of such a text: the quoted items in order.
RECURSIVE ParseItems(_, _, _, _)
ParseItems(s, inStr, cur, acc) ==
    IF s = << >> THEN acc
    ELSE IF inStr
         THEN IF Head(s) = "\""
              THEN ParseItems(Tail(s), FALSE, << >>, Append(acc, cur))
              ELSE ParseItems(Tail(s), TRUE, Append(cur, Head(s)), acc)
         ELSE IF Head(s) = "\""
              THEN ParseItems(Tail(s), TRUE, << >>, acc)
              ELSE ParseItems(Tail(s), FALSE, cur, acc)

JSON_parse(text) == ParseItems(text, FALSE, << >>, << >>)

\* The lines the user may type at a list question.
GenreAnswers ==
    { << >>, << " " >>, << ",", " ", "," >>, << "A", ",", " ", "b" >> }

LanguageAnswers == { << >>, << "," >>, << "E", "N" >> }

ProviderAnswers == { << " ", ",", " " >>, << "N", ",", "H" >> }

CuisineAnswers ==
    { << >>, << " " >>, << "," >>, << "A", ",", " ", "b" >> }

DietAnswers == { << >>, << " ", ",", " " >>, << "v" >> }

\* The lines the user may type at the four integer questions, in the
\* order asked: minimum year, maximum year, minimum and maximum duration.
IntegerAnswers ==
    { << << >>, << "a", "b", "c" >>, << " " >>, << >> >>,
      << << "1", "9", "9", "0" >>, << "2", "0", "2", "0" >>,
         << "3", "0" >>, << "6", "0", "x" >> >>,
      << << "1", "9", "9", "0" >>, << "a", "b", "c" >>,
         << " " >>, << "6", "0", "x" >> >> }

\* The lines the user may type at a rating question.
RatingAnswers ==
    { << >>, << "a", "b", "c" >>, << "4", ".", "5" >>, << "1", "1" >>,
      << "-", "3" >> }

\* `str.trim() ? str.split(',').map(...).filter(Boolean) : undefined`
ListAnswer(str) ==
    IF Trim(str) # << >> THEN << SplitTrimFilter(str) >> ELSE Undef

LowerListAnswer(str) ==
    IF Trim(str) # << >> THEN << SplitTrimLowerFilter(str) >> ELSE Undef

\* `str.trim() ? parseInt(str) : undefined`, NaN replaced by undefined.
IntAnswer(str) == IF Trim(str) # << >> THEN parseInt(str) ELSE Undef

\* `str.trim() ? parseFloat(str) : undefined`, NaN replaced by undefined.
FloatAnswer(str) == IF Trim(str) # << >> THEN parseFloat(str) ELSE Undef

\* `prefs.list ? JSON.stringify(prefs.list) : null` (an array is truthy).
ListColumn(o) == IF IsSet(o) THEN << JSON_stringify(Val(o)) >> ELSE Undef

\* `row.list ? JSON.parse(row.list) : undefined` (a non-empty text is
\* truthy).
ListFromColumn(c) ==
    IF IsSet(c) /\ Val(c) # << >> THEN << JSON_parse(Val(c)) >> ELSE Undef

saveUserTvShowPreferences(p) ==
    [ preferred_genres |-> ListColumn(p.preferred_genres),
      preferred_languages |-> ListColumn(p.preferred_languages),
      first_air_year_min |-> p.first_air_year_min,
      first_air_year_max |-> p.first_air_year_max,
      avg_episode_duration_min |-> p.avg_episode_duration_min,
      avg_episode_duration_max |-> p.avg_episode_duration_max,
      min_imdb_rating |-> p.min_imdb_rating,
      preferred_streaming_providers |-> ListColumn(p.preferred_streaming_providers) ]

\* Undef when the user has no row.
getUserTvShowPreferences(stored) ==
    IF stored = << >> THEN Undef
    ELSE LET row == Val(stored)
         IN  << [ preferred_genres |-> ListFromColumn(row.preferred_genres),
                  preferred_languages |-> ListFromColumn(row.preferred_languages),
                  first_air_year_min |-> row.first_air_year_min,
                  first_air_year_max |-> row.first_air_year_max,
                  avg_episode_duration_min |-> row.avg_episode_duration_min,
                  avg_episode_duration_max |-> row.avg_episode_duration_max,
                  min_imdb_rating |-> row.min_imdb_rating,
                  preferred_streaming_providers |->
                      ListFromColumn(row.preferred_streaming_providers) ] >>

NoMoviePrefs ==
    [ preferred_genres |-> Undef, preferred_languages |-> Undef,
      release_year_min |-> Undef, release_year_max |-> Undef,
      duration_min_minutes |-> Undef, duration_max_minutes |-> Undef,
      min_imdb_rating |-> Undef, preferred_streaming_providers |-> Undef ]

saveUserMoviePreferences(p) ==
    [ preferred_genres |-> ListColumn(p.preferred_genres),
      preferred_languages |-> ListColumn(p.preferred_languages),
      release_year_min |-> p.release_year_min,
      release_year_max |-> p.release_year_max,
      duration_min_minutes |-> p.duration_min_minutes,
      duration_max_minutes |-> p.duration_max_minutes,
      min_imdb_rating |-> p.min_imdb_rating,
      preferred_streaming_providers |-> ListColumn(p.preferred_streaming_providers) ]

getUserMoviePreferences(stored) ==
    IF stored = << >> THEN Undef
    ELSE LET row == Val(stored)
         IN  << [ preferred_genres |-> ListFromColumn(row.preferred_genres),
                  preferred_languages |-> ListFromColumn(row.preferred_languages),
                  release_year_min |-> row.release_year_min,
                  release_year_max |-> row.release_year_max,
                  duration_min_minutes |-> row.duration_min_minutes,
                  duration_max_minutes |-> row.duration_max_minutes,
                  min_imdb_rating |-> row.min_imdb_rating,
                  preferred_streaming_providers |->
                      ListFromColumn(row.preferred_streaming_providers) ] >>

\* The restaurant row keeps both lists as JSON text, always.
saveUserRestaurantPreferences(p) ==
    [ favoriteCuisines |-> JSON_stringify(p.favoriteCuisines),
      dietaryRestrictions |-> JSON_stringify(p.dietaryRestrictions),
      minRating |-> p.minRating ]

getUserRestaurantPreferences(stored) ==
    IF stored = << >> THEN Undef
    ELSE LET row == Val(stored)
         IN  << [ favoriteCuisines |-> JSON_parse(row.favoriteCuisines),
                  dietaryRestrictions |-> JSON_parse(row.dietaryRestrictions),
                  minRating |-> row.minRating ] >>

\* The preferences of the first two mock users and of the last.
mockUsers ==
    { [ favoriteCuisines |-> << << "I" >>, << "M" >> >>,
        dietaryRestrictions |-> << >>, minRating |-> 40 ],
      [ favoriteCuisines |-> << << "I" >>, << "T" >>, << "V" >> >>,
        dietaryRestrictions |-> << << "v" >> >>, minRating |-> 42 ],
      [ favoriteCuisines |-> << << "A", "n", "y" >> >>,
        dietaryRestrictions |-> << >>, minRating |-> 30 ] }

\* What manageTvShowPreferences leaves in prefs for the typed lines;
\* ints holds the four integer answers in the order asked.
TvShowPrefsTyped(genresStr, langsStr, ints, tmdbRatingStr, providersStr) ==
    [ preferred_genres |-> ListAnswer(genresStr),
      preferred_languages |-> LowerListAnswer(langsStr),
      first_air_year_min |-> IntAnswer(ints[1]),
      first_air_year_max |-> IntAnswer(ints[2]),
      avg_episode_duration_min |-> IntAnswer(ints[3]),
      avg_episode_duration_max |-> IntAnswer(ints[4]),
      min_imdb_rating |-> FloatAnswer(tmdbRatingStr),
      preferred_streaming_providers |-> ListAnswer(providersStr) ]

\* What manageMoviePreferences leaves in prefs for the typed lines.
MoviePrefsTyped(genresStr, langsStr, ints, tmdbRatingStr, providersStr) ==
    [ preferred_genres |-> ListAnswer(genresStr),
      preferred_languages |-> LowerListAnswer(langsStr),
      release_year_min |-> IntAnswer(ints[1]),
      release_year_max |-> IntAnswer(ints[2]),
      duration_min_minutes |-> IntAnswer(ints[3]),
      duration_max_minutes |-> IntAnswer(ints[4]),
      min_imdb_rating |-> FloatAnswer(tmdbRatingStr),
      preferred_streaming_providers |-> ListAnswer(providersStr) ]

\* What manageRestaurantPreferences leaves in currentPrefs: given is the
\* object passed in, Undef when the caller passes undefined.
RestaurantPrefsTyped(given, cuisinesStr, dietStr, ratingStr) ==
    LET currentPrefs == IF IsSet(given) THEN Val(given)
                        ELSE [ favoriteCuisines |-> << >>,
                               dietaryRestrictions |-> << >>,
                               minRating |-> 30 ]
        newMinRating == parseFloat(ratingStr)
    IN  [ favoriteCuisines |->
              IF Trim(cuisinesStr) # << >> THEN SplitTrimFilter(cuisinesStr)
              ELSE currentPrefs.favoriteCuisines,
          dietaryRestrictions |->
              IF Trim(dietStr) # << >> THEN SplitTrimFilter(dietStr)
              ELSE currentPrefs.dietaryRestrictions,
          minRating |->
              IF IsSet(newMinRating) /\ Val(newMinRating) >= 10
                                     /\ Val(newMinRating) <= 50
              THEN Val(newMinRating)
              ELSE currentPrefs.minRating ]

InitPrompt ==
    /\ sKind = "tv" /\ sPrefs = NoTvPrefs /\ sEntity = << >>
    /\ sJitter = 0 /\ sScore = -1
    /\ CallIdle
    /\ CatalogIdle
    /\ PromptIdle
    /\ ProviderIdle
    /\ SessionIdle

\* Startup seeds the restaurant preferences of a user from the mock data.
seedInitialRestaurantPreferences ==
    /\ pdom = "none"
    /\ ppc = "idle"
    /\ pstored = << >>
    /\ \E u \in mockUsers : pstored' = << saveUserRestaurantPreferences(u) >>
    /\ pdom' = "rest"
    /\ UNCHANGED << ppc, pmem, panswers >>
    /\ UNCHANGED << scoreVars, callVars, catalogVars >>
    /\ UNCHANGED << providerVars, sessionVars >>

\* Entering the TV menu: the stored preferences, or an empty object.
runTvShowCLI ==
    /\ pdom \in { "none", "tv" }
    /\ ppc = "idle"
    /\ pdom' = "tv"
    /\ pmem' = IF IsSet(getUserTvShowPreferences(pstored))
               THEN Val(getUserTvShowPreferences(pstored))
               ELSE NoTvPrefs
    /\ ppc' = "menu"
    /\ panswers' = << >>
    /\ UNCHANGED pstored
    /\ UNCHANGED << scoreVars, callVars, catalogVars >>
    /\ UNCHANGED << providerVars, sessionVars >>

\* Menu option 4 of the TV menu.
manageTvShowPreferences ==
    /\ pdom = "tv"
    /\ ppc = "menu"
    /\ \E genresStr \in GenreAnswers, langsStr \in LanguageAnswers,
          ints \in IntegerAnswers,
          tmdbRatingStr \in RatingAnswers, providersStr \in ProviderAnswers :
          LET p == TvShowPrefsTyped(genresStr, langsStr, ints, tmdbRatingStr,
                                    providersStr)
          IN  /\ pmem' = p
              /\ pstored' = << saveUserTvShowPreferences(p) >>
              /\ panswers' = << [ preferred_genres |-> genresStr,
                                  preferred_languages |-> langsStr,
                                  preferred_streaming_providers |-> providersStr ] >>
    /\ UNCHANGED << pdom, ppc >>
    /\ UNCHANGED << scoreVars, callVars, catalogVars >>
    /\ UNCHANGED << providerVars, sessionVars >>

\* Entering the movie menu.
runMovieCLI ==
    /\ pdom \in { "none", "movie" }
    /\ ppc = "idle"
    /\ pdom' = "movie"
    /\ pmem' = IF IsSet(getUserMoviePreferences(pstored))
               THEN Val(getUserMoviePreferences(pstored))
               ELSE NoMoviePrefs
    /\ ppc' = "menu"
    /\ panswers' = << >>
    /\ UNCHANGED pstored
    /\ UNCHANGED << scoreVars, callVars, catalogVars >>
    /\ UNCHANGED << providerVars, sessionVars >>

\* Menu option 4 of the movie menu.
manageMoviePreferences ==
    /\ pdom = "movie"
    /\ ppc = "menu"
    /\ \E genresStr \in GenreAnswers, langsStr \in LanguageAnswers,
          ints \in IntegerAnswers,
          tmdbRatingStr \in RatingAnswers, providersStr \in ProviderAnswers :
          LET p == MoviePrefsTyped(genresStr, langsStr, ints, tmdbRatingStr,
                                   providersStr)
          IN  /\ pmem' = p
              /\ pstored' = << saveUserMoviePreferences(p) >>
              /\ panswers' = << [ preferred_genres |-> genresStr,
                                  preferred_languages |-> langsStr,
                                  preferred_streaming_providers |-> providersStr ] >>
    /\ UNCHANGED << pdom, ppc >>
    /\ UNCHANGED << scoreVars, callVars, catalogVars >>
    /\ UNCHANGED << providerVars, sessionVars >>

\* Entering the restaurant menu.  Without a stored row the user either
\* sets the preferences up at once ('y') or gets the saved default.
runRestaurantCLI ==
    /\ pdom \in { "none", "rest" }
    /\ ppc = "idle"
    /\ pdom' = "rest"
    /\ ppc' = "menu"
    /\ \/ /\ IsSet(getUserRestaurantPreferences(pstored))
          /\ pmem' = Val(getUserRestaurantPreferences(pstored))
          /\ panswers' = << >>
          /\ UNCHANGED pstored
       \/ /\ ~IsSet(getUserRestaurantPreferences(pstored))
          /\ \E cuisinesStr \in CuisineAnswers, dietStr \in DietAnswers,
                ratingStr \in RatingAnswers :
                LET p == RestaurantPrefsTyped(Undef, cuisinesStr, dietStr, ratingStr)
                IN  /\ pmem' = p
                    /\ pstored' = << saveUserRestaurantPreferences(p) >>
                    /\ panswers' = << [ favoriteCuisines |-> cuisinesStr,
                                        dietaryRestrictions |-> dietStr ] >>
       \/ /\ ~IsSet(getUserRestaurantPreferences(pstored))
          /\ LET p == [ favoriteCuisines |-> << << "A", "n", "y" >> >>,
                        dietaryRestrictions |-> << >>,
                        minRating |-> 30 ]
             IN  /\ pmem' = p
                 /\ pstored' = << saveUserRestaurantPreferences(p) >>
          /\ panswers' = << >>
    /\ UNCHANGED << scoreVars, callVars, catalogVars >>
    /\ UNCHANGED << providerVars, sessionVars >>

\* Menu option 3 of the restaurant menu.
manageRestaurantPreferences ==
    /\ pdom = "rest"
    /\ ppc = "menu"
    /\ \E cuisinesStr \in CuisineAnswers, dietStr \in DietAnswers,
          ratingStr \in RatingAnswers :
          LET p == RestaurantPrefsTyped(<< pmem >>, cuisinesStr, dietStr, ratingStr)
          IN  /\ pmem' = p
              /\ pstored' = << saveUserRestaurantPreferences(p) >>
              /\ panswers' = << [ favoriteCuisines |-> cuisinesStr,
                                  dietaryRestrictions |-> dietStr ] >>
    /\ UNCHANGED << pdom, ppc >>
    /\ UNCHANGED << scoreVars, callVars, catalogVars >>
    /\ UNCHANGED << providerVars, sessionVars >>

\* Menu option 0: back to the main menu; the loop's object is dropped.
ExitMenu ==
    /\ ppc = "menu"
    /\ ppc' = "idle"
    /\ pmem' = << >>
    /\ panswers' = << >>
    /\ UNCHANGED << pdom, pstored >>
    /\ UNCHANGED << scoreVars, callVars, catalogVars >>
    /\ UNCHANGED << providerVars, sessionVars >>

NextPrompt ==
    \/ seedInitialRestaurantPreferences
    \/ runTvShowCLI
    \/ manageTvShowPreferences
    \/ runMovieCLI
    \/ manageMoviePreferences
    \/ runRestaurantCLI
    \/ manageRestaurantPreferences
    \/ ExitMenu

SpecPrompt == InitPrompt /\ [][NextPrompt]_vars

(***************************************************************************)
(* Claims checked under SpecPrompt.                                        *)
(***************************************************************************)
TmdbListFields ==
    { "preferred_genres", "preferred_languages", "preferred_streaming_providers" }

RestaurantListFields == { "favoriteCuisines", "dietaryRestrictions" }

\* The user's preferences as a fresh read of the stored row gives them.
ReadBack ==
    CASE pdom = "tv" -> getUserTvShowPreferences(pstored)
      [] pdom = "movie" -> getUserMoviePreferences(pstored)
      [] pdom = "rest" -> getUserRestaurantPreferences(pstored)
      [] OTHER -> Undef

\* An optional list that is set, to the empty list.
SetToEmptyList(o) == IsSet(o) /\ Val(o) = << >>

\* C18: in the movie and TV prompts every list-valued preference field,
\* in memory and as stored and read back, is unset or a non-empty list,
\* whatever was typed.
C18_ListFieldsUnsetOrNonEmpty ==
    pdom \in { "movie", "tv" } =>
        /\ ppc = "menu" => \A f \in TmdbListFields : ~SetToEmptyList(pmem[f])
        /\ IsSet(ReadBack) =>
              \A f \in TmdbListFields : ~SetToEmptyList(Val(ReadBack)[f])

\* The handler has just run and the line typed for field f was empty after
\* trimming.
TypedEmpty(f) ==
    /\ ppc = "menu"
    /\ IsSet(panswers)
    /\ Trim(Val(panswers)[f]) = << >>

\* C19: in every domain's prompt a line that is empty after trimming
\* resets the list field to 'no constraint', whatever it held before, in
\* memory and in the stored preferences.
C19_EmptyInputResetsField ==
    /\ pdom \in { "movie", "tv" } =>
          \A f \in TmdbListFields :
              TypedEmpty(f) => /\ pmem[f] = Undef
                               /\ Val(ReadBack)[f] = Undef
    /\ pdom = "rest" =>
          \A f \in RestaurantListFields :
              TypedEmpty(f) => /\ pmem[f] = << >>
                               /\ Val(ReadBack)[f] = << >>

\* C20: every stored minimum rating lies in its range: restaurant
\* minRating in [1,5], movie and TV min_imdb_rating unset or in [0,10].
C20_StoredMinimumRatingInRange ==
    IsSet(pstored) =>
        /\ pdom = "rest" =>
              Val(pstored).minRating >= 10 /\ Val(pstored).minRating <= 50
        /\ pdom \in { "movie", "tv" } =>
              \/ Val(pstored).min_imdb_rating = Undef
              \/ /\ Val(Val(pstored).min_imdb_rating) >= 0
                 /\ Val(Val(pstored).min_imdb_rating) <= 100

(***************************************************************************)
(* Specification SpecProvider: calls of the provider functions in one      *)
(* process run.                                                            *)
(***************************************************************************)
\* The number of provider calls followed in one run.
MaxCalls == 4

\* What the provider may answer to a request: null (an HTTP error, a
\* network error) or a body with a result list.
TmdbResponses == { Undef, << << 1, 2 >> >> }

\* What the genre endpoint may answer: null, or a body whose genre list is
\* empty, or one of two genre lists.
GenreResponses == { Undef, << << >> >>, << << 18 >> >>, << << 18, 35 >> >> }

\* One process run starts with the keys read from the environment, empty
\* genre caches and nothing printed.
InitProvider ==
    /\ sKind = "none"
    /\ sPrefs = NoPrefs
    /\ sEntity = Undef
    /\ sJitter = 0
    /\ sScore = -1
    /\ \E key \in BOOLEAN : CallIdleWith(key)
    /\ CatalogIdle
    /\ PromptIdle
    /\ googleKey \in BOOLEAN
    /\ warnings = [s \in Services |-> 0]
    /\ genreListCache = [k \in GenreLists |-> Undef]
    /\ genreLog = [k \in GenreLists |-> << >>]
    /\ answer = Undef
    /\ calls = 0
    /\ SessionIdle

\* console.error of the missing-key message of one service.
MissingKeyWarning(service, missing) ==
    [warnings EXCEPT ![service] = IF missing THEN @ + 1 ELSE @]

\* Mutant of GenreCacheAfter: the cache keeps what it held.
GenreCacheAfter_Keep(cache, response) == cache

\* The genre cache after a request: filled when the response carries a
\* genre list, left as it was otherwise.
GenreCacheAfter(cache, response) == IF IsSet(response) THEN response ELSE cache

\* A call of one of the endpoint wrappers built on fetchTMDB (popular,
\* details, recommendations, search).
callTMDB ==
    /\ calls < MaxCalls
    /\ \E r \in TmdbResponses : answer' = fetchTMDB(r)
    /\ warnings' = MissingKeyWarning("tmdb", ~apiKey)
    /\ calls' = calls + 1
    /\ UNCHANGED << googleKey, genreListCache, genreLog >>
    /\ UNCHANGED << scoreVars, callVars, catalogVars, promptVars, sessionVars >>

\* getMovieGenreList and getTvShowGenreList: the cached list when there is
\* one, else a request whose genre list, if any, is cached and returned;
\* the empty list when the request brought nothing.
getGenreList(k) ==
    /\ calls' = calls + 1
    /\ IF IsSet(genreListCache[k])
       THEN /\ answer' = genreListCache[k]
            /\ genreLog' = [genreLog EXCEPT ![k] = Append(@,
                   [returned |-> Val(genreListCache[k]), requested |-> FALSE,
                    cached |-> TRUE])]
            /\ UNCHANGED << genreListCache, warnings >>
       ELSE \E r \in GenreResponses :
               LET response == fetchTMDB(r)
                   returned == IF IsSet(response) THEN Val(response) ELSE << >>
                   cache == GenreCacheAfter(genreListCache[k], response)
               IN  /\ genreListCache' = [genreListCache EXCEPT ![k] = cache]
                   /\ answer' = << returned >>
                   /\ genreLog' = [genreLog EXCEPT ![k] = Append(@,
                          [returned |-> returned, requested |-> apiKey,
                           cached |-> IsSet(cache)])]
                   /\ warnings' = MissingKeyWarning("tmdb", ~apiKey)
    /\ UNCHANGED googleKey
    /\ UNCHANGED << scoreVars, callVars, catalogVars, promptVars, sessionVars >>

getMovieGenreList ==
    /\ calls < MaxCalls
    /\ getGenreList("movie")

getTvShowGenreList ==
    /\ calls < MaxCalls
    /\ getGenreList("tv")

\* One Google Places search.
searchGooglePlaces ==
    /\ calls < MaxCalls
    /\ \E places \in GoogleResponses :
          answer' = << fetchRestaurantsFromGooglePlaces(googleKey, places) >>
    /\ warnings' = MissingKeyWarning("google", ~googleKey)
    /\ calls' = calls + 1
    /\ UNCHANGED << googleKey, genreListCache, genreLog >>
    /\ UNCHANGED << scoreVars, callVars, catalogVars, promptVars, sessionVars >>

NextProvider ==
    \/ callTMDB
    \/ getMovieGenreList
    \/ getTvShowGenreList
    \/ searchGooglePlaces

SpecProvider == InitProvider /\ [][NextProvider]_vars

(***************************************************************************)
(* Claims about the provider functions (specification SpecProvider).       *)
(***************************************************************************)
\* C24: the missing-key message of a service is printed at most once in a
\* process run.
C24_MissingKeyWarnedOnce == \A s \in Services : warnings[s] <= 1

\* The calls of one genre function so far.
GenreCalls(k) == genreLog[k]

MaxRated == 3

\* The shows / movies the user finds with the search prompt.
RateableIds == { 1, 2, 3 }

\* What the user types at 'Rate ... (1-5, or 0 to skip)', after parseInt.
TypedRatings == { 0, 2, 5, 6 }

\* The sizes the restaurants table grows to with 'Fetch New Restaurants'.
FetchSizes == { 4, Len(RestaurantCatalog) }

\* The call variables except the preference record.
callButPrefs == << pc, dom, count, exclude, exclude0, ratings, popular,
                   noDetails, apiKey, db, recs, phaseOf, cands, seeds, simList,
                   idx, queried, result >>

\* The restaurant loop's variables.
loopVars == << likedAtStart, shownAndLikedIds, recommendations, displayed,
               browsing, allDbRestaurants, invoked >>

InitSession ==
    /\ sKind = "none"
    /\ sPrefs = NoPrefs
    /\ sEntity = Undef
    /\ sJitter = 0
    /\ sScore = -1
    /\ CallIdle
    /\ CatalogIdle
    /\ PromptIdle
    /\ ProviderIdle
    /\ SessionIdle

\* The user enters one of the three menus; the preference record of that
\* domain is loaded.
SelectMenu ==
    /\ menu = "none"
    /\ \E m \in { "tv", "movie", "rest" } :
          /\ menu' = m
          /\ prefs' \in CASE m = "tv" -> TvPrefChoices
                          [] m = "rest" -> RestaurantPrefChoices
                          [] OTHER -> { NoPrefs }
    /\ UNCHANGED << liked, dbRestaurants, loopVars >>
    /\ UNCHANGED callButPrefs
    /\ UNCHANGED << scoreVars, catalogVars, promptVars, providerVars >>

\* No recommendation call is running: the menu is waiting for a choice.
AtMenu(m) == menu = m /\ pc \in { "idle", "done" }

\* saveUserTvShowRating / saveUserMovieRating: insert, or update the row of
\* the same user and entity.
SaveRating(rs, id, rating) ==
    IF id \in RatedIds(rs)
    THEN [ i \in 1..Len(rs) |->
             IF rs[i].id = id THEN [ id |-> id, score |-> rating ] ELSE rs[i] ]
    ELSE Append(rs, [ id |-> id, score |-> rating ])

\* The position and the working variables of a call, before a call.
CallCleared ==
    /\ recs' = << >>
    /\ phaseOf' = << >>
    /\ cands' = << >>
    /\ seeds' = << >>
    /\ simList' = << >>
    /\ idx' = 1
    /\ queried' = << >>
    /\ result' = << >>

\* Menu choice 2: the entity is saved to the catalog, then rated when the
\* typed value lies in 1..5.
RateFlow ==
    /\ \E id \in RateableIds, typed \in TypedRatings :
          /\ id \in RatedIds(ratings) \/ Len(ratings) < MaxRated
          /\ db' = db \cup { id }
          /\ ratings' = IF typed >= 1 /\ typed <= 5
                        THEN SaveRating(ratings, id, typed)
                        ELSE ratings
    /\ pc' = "idle"
    /\ dom' = "none"
    /\ count' = 0
    /\ exclude' = {}
    /\ exclude0' = {}
    /\ popular' = << >>
    /\ noDetails' = {}
    /\ CallCleared
    /\ UNCHANGED << prefs, apiKey >>
    /\ UNCHANGED sessionVars
    /\ UNCHANGED << scoreVars, catalogVars, promptVars, providerVars >>

RateTvShow ==
    /\ AtMenu("tv")
    /\ RateFlow

RateMovie ==
    /\ AtMenu("movie")
    /\ RateFlow

\* Menu choice 4 of the TV menu.
EditTvShowPreferences ==
    /\ AtMenu("tv")
    /\ prefs' \in TvPrefChoices
    /\ UNCHANGED callButPrefs
    /\ UNCHANGED sessionVars
    /\ UNCHANGED << scoreVars, catalogVars, promptVars, providerVars >>

\* Mutant of ExcludeRated: only the well rated entities are excluded.
ExcludeRated_LikedOnly(rs) ==
    { rs[i].id : i \in { j \in 1..Len(rs) : rs[j].score >= 4 } }

\* excludeTmdbIds: the external ids of every entity the user has a rating
\* row for.
ExcludeRated(rs) == RatedIds(rs)

\* Menu choice 1 of the TV menu: the exclusion set is built from the rating
\* rows and the orchestrator is called with the default count.
RecommendTvShows ==
    /\ AtMenu("tv")
    /\ \E pop \in PopularChoices, nd \in NoDetailsChoices :
          /\ popular' = pop
          /\ noDetails' = nd
    /\ dom' = "tv"
    /\ count' = DefaultCount
    /\ exclude' = ExcludeRated(ratings)
    /\ exclude0' = ExcludeRated(ratings)
    /\ CallCleared
    /\ pc' = PhaseEntry(TvPhaseOrder[1])
    /\ UNCHANGED << prefs, ratings, apiKey, db >>
    /\ UNCHANGED sessionVars
    /\ UNCHANGED << scoreVars, catalogVars, promptVars, providerVars >>

\* Menu choice 1 of the movie menu.
RecommendMovies ==
    /\ AtMenu("movie")
    /\ \E pop \in PopularChoices, nd \in NoDetailsChoices :
          /\ popular' = pop
          /\ noDetails' = nd
    /\ dom' = "movie"
    /\ count' = DefaultCount
    /\ exclude' = ExcludeRated(ratings)
    /\ exclude0' = ExcludeRated(ratings)
    /\ CallCleared
    /\ pc' = PhaseEntry(MvPhaseOrder[1])
    /\ UNCHANGED << prefs, ratings, apiKey, db >>
    /\ UNCHANGED sessionVars
    /\ UNCHANGED << scoreVars, catalogVars, promptVars, providerVars >>

\* The restaurant menu is waiting for a choice.
AtRestaurantMenu == menu = "rest" /\ browsing = "no"

\* The draws of Math.random() followed in a session: none high, the odd
\* ids high, the even ids high.
BrowseJitterDraws ==
    { [ id \in RestaurantIds |-> IF id % 2 = m THEN 19 ELSE 0 ] : m \in 0..2 }

\* Restaurant menu choice 2: rows are added to the restaurants table.
fetchAndSaveRestaurantsToDb ==
    /\ AtRestaurantMenu
    /\ \E n \in FetchSizes :
          /\ n > Len(dbRestaurants)
          /\ dbRestaurants' = SubSeq(RestaurantCatalog, 1, n)
    /\ UNCHANGED << menu, liked, loopVars >>
    /\ UNCHANGED << scoreVars, callVars, catalogVars, promptVars, providerVars >>

\* Restaurant menu choice 3.
EditRestaurantPreferences ==
    /\ AtRestaurantMenu
    /\ prefs' \in RestaurantPrefChoices
    /\ UNCHANGED callButPrefs
    /\ UNCHANGED sessionVars
    /\ UNCHANGED << scoreVars, catalogVars, promptVars, providerVars >>

\* The ids getRestaurantRecommendations returns.
RestaurantsFor(p, allRestaurants, excludeRestaurantIds, jit) ==
    Ids(scoredRestaurants(p, allRestaurants, excludeRestaurantIds, jit))

\* Restaurant menu choice 1, up to the loop: the table is read, the liked
\* ids become the exclusion set and the recommender is called.
BrowseStart ==
    /\ AtRestaurantMenu
    /\ allDbRestaurants' = dbRestaurants
    /\ likedAtStart' = liked
    /\ displayed' = << >>
    /\ IF Len(dbRestaurants) = 0
       THEN /\ shownAndLikedIds' = {}
            /\ recommendations' = << >>
            /\ invoked' = 0
            /\ browsing' = "no_restaurants"
       ELSE /\ shownAndLikedIds' = liked
            /\ \E jit \in BrowseJitterDraws :
                  recommendations' = RestaurantsFor(prefs, dbRestaurants, liked, jit)
            /\ invoked' = 1
            /\ browsing' = IF recommendations' = << >> THEN "none_match" ELSE "yes"
    /\ UNCHANGED << menu, liked, dbRestaurants >>
    /\ UNCHANGED << scoreVars, callVars, catalogVars, promptVars, providerVars >>

\* Mutant of ShownAfter: the displayed restaurant is not remembered.
ShownAfter_Forget(shown, id) == shown

\* shownAndLikedIds.add(nextRestaurant.id)
ShownAfter(shown, id) == shown \cup { id }

\* Mutant of ExclusionsForMore: the re-invocation excludes only what was
\* liked when the loop began.
ExclusionsForMore_Initial(shown, start) == start

\* The exclusion set the loop passes when it asks for more.
ExclusionsForMore(shown, start) == shown

\* One iteration of `while(recommendations.length > 0)`: the next restaurant
\* is displayed and remembered, the answer is read ('y' records a like, 's'
\* leaves the loop), and when the list is used up the recommender is called
\* again; an empty answer ends the loop.
BrowseStep ==
    /\ menu = "rest"
    /\ browsing = "yes"
    /\ LET nextRestaurant == Head(recommendations)
           rest == Tail(recommendations)
           shown == ShownAfter(shownAndLikedIds, nextRestaurant)
       IN  /\ displayed' = Append(displayed, nextRestaurant)
           /\ shownAndLikedIds' = shown
           /\ \E action \in { "y", "n", "s" } :
                 /\ liked' = IF action = "y" THEN liked \cup { nextRestaurant }
                             ELSE liked
                 /\ IF action = "s"
                    THEN /\ recommendations' = rest
                         /\ invoked' = invoked
                         /\ browsing' = "stopped"
                    ELSE /\ IF rest = << >>
                            THEN /\ \E jit \in BrowseJitterDraws :
                                       recommendations' = RestaurantsFor(
                                           prefs, allDbRestaurants,
                                           ExclusionsForMore(shown, likedAtStart),
                                           jit)
                                 /\ invoked' = invoked + 1
                            ELSE /\ recommendations' = rest
                                 /\ invoked' = invoked
                         /\ browsing' = IF recommendations' = << >>
                                        THEN "exhausted" ELSE "yes"
    /\ UNCHANGED << menu, likedAtStart, dbRestaurants, allDbRestaurants >>
    /\ UNCHANGED << scoreVars, callVars, catalogVars, promptVars, providerVars >>

\* The `break` that leaves menu choice 1: the loop's variables go out of
\* scope and the menu is shown again.
BackToRestaurantMenu ==
    /\ menu = "rest"
    /\ browsing \in { "no_restaurants", "none_match", "stopped", "exhausted" }
    /\ browsing' = "no"
    /\ likedAtStart' = {}
    /\ shownAndLikedIds' = {}
    /\ recommendations' = << >>
    /\ displayed' = << >>
    /\ allDbRestaurants' = << >>
    /\ invoked' = 0
    /\ UNCHANGED << menu, liked, dbRestaurants >>
    /\ UNCHANGED << scoreVars, callVars, catalogVars, promptVars, providerVars >>

NextSession ==
    \/ SelectMenu
    \/ RateTvShow
    \/ EditTvShowPreferences
    \/ RecommendTvShows
    \/ TvContentGate
    \/ TvContentStep
    \/ TvSimilarGate
    \/ TvSimilarSeed
    \/ TvSimilarItem
    \/ TvPopularGate
    \/ TvPopularItem
    \/ TvReturn
    \/ RateMovie
    \/ RecommendMovies
    \/ MvSimilarGate
    \/ MvSimilarSeed
    \/ MvSimilarItem
    \/ MvContentGate
    \/ MvContentStep
    \/ MvPopularGate
    \/ MvPopularItem
    \/ MvReturn
    \/ fetchAndSaveRestaurantsToDb
    \/ EditRestaurantPreferences
    \/ BrowseStart
    \/ BrowseStep
    \/ BackToRestaurantMenu

SpecSession == InitSession /\ [][NextSession]_vars

(***************************************************************************)
(* Claims about a session in the TV and movie menus (specification         *)
(* SpecSession).                                                           *)
(***************************************************************************)
\* C21: an entity the user has a rating row for (of any value) is in no
\* list a later 'get recommendations' builds or returns, and a restaurant
\* the user has a like row for is neither in the list still to show nor
\* among those displayed if it was liked when the loop began.
C21_InteractedNeverRecommended ==
    /\ menu \in { "tv", "movie" } =>
          /\ SeqToSet(recs) \cap RatedIds(ratings) = {}
          /\ SeqToSet(result) \cap RatedIds(ratings) = {}
    /\ menu = "rest" =>
          /\ SeqToSet(recommendations) \cap liked = {}
          /\ SeqToSet(displayed) \cap likedAtStart = {}

\* A TV call has returned a non-empty list to a user who has rated a show
\* of the popular list with 2.
C21_Witness ==
    /\ menu = "tv"
    /\ Done
    /\ result # << >>
    /\ \E i \in 1..Len(ratings) :
          /\ ratings[i].score = 2
          /\ ratings[i].id \in SeqToSet(popular)
          /\ ~NoTvShowDetails(ratings[i].id)

(***************************************************************************)
(* Specification SpecBrowse: the restaurant menu of one user; and          *)
(* SpecBrowseFair, in which the user answers every prompt of the loop.     *)
(***************************************************************************)
InitBrowse ==
    /\ sKind = "none"
    /\ sPrefs = NoPrefs
    /\ sEntity = Undef
    /\ sJitter = 0
    /\ sScore = -1
    /\ pc = "idle"
    /\ dom = "none"
    /\ count = 0
    /\ prefs \in RestaurantPrefChoices
    /\ exclude = {}
    /\ exclude0 = {}
    /\ ratings = << >>
    /\ popular = << >>
    /\ noDetails = {}
    /\ apiKey = TRUE
    /\ db = {}
    /\ recs = << >>
    /\ phaseOf = << >>
    /\ cands = << >>
    /\ seeds = << >>
    /\ simList = << >>
    /\ idx = 1
    /\ queried = << >>
    /\ result = << >>
    /\ CatalogIdle
    /\ PromptIdle
    /\ ProviderIdle
    /\ menu = "rest"
    /\ liked = {}
    /\ likedAtStart = {}
    /\ shownAndLikedIds = {}
    /\ recommendations = << >>
    /\ displayed = << >>
    /\ browsing = "no"
    /\ dbRestaurants = << >>
    /\ allDbRestaurants = << >>
    /\ invoked = 0

NextBrowse ==
    \/ fetchAndSaveRestaurantsToDb
    \/ EditRestaurantPreferences
    \/ BrowseStart
    \/ BrowseStep
    \/ BackToRestaurantMenu

SpecBrowse == InitBrowse /\ [][NextBrowse]_vars

\* Each prompt of the loop is answered.
SpecBrowseFair == SpecBrowse /\ WF_vars(BrowseStep)

\* C26: within one run of the loop no restaurant is displayed twice.
C26_NoRestaurantShownTwice == NoRepeats(displayed)

\* The loop has displayed three restaurants, one of them not liked, and has
\* called the recommender a second time.
C26_Witness ==
    /\ Len(displayed) >= 3
    /\ invoked >= 2
    /\ SeqToSet(displayed) \ liked # {}

\* The ids of the rows read when the loop began.
SnapshotIds == { allDbRestaurants[i].id : i \in 1..Len(allDbRestaurants) }

\* C30: a run of the loop ends; it displays no more restaurants than the
\* snapshot holds that were not liked before; and when it ends by itself the
\* recommender, asked with the advanced exclusion set, has nothing left.
C30_LoopEndsWhenNothingLeft ==
    /\ [](Len(displayed) <= Cardinality(SnapshotIds \ likedAtStart))
    /\ [][(browsing = "yes" /\ browsing' = "exhausted") =>
            /\ invoked' >= 2
            /\ \A jit \in JitterDraws :
                  RestaurantsFor(prefs', allDbRestaurants', shownAndLikedIds',
                                 jit) = << >>]_vars
    /\ (browsing = "yes") ~> (browsing \in { "exhausted", "stopped" })

\* A run that ended by itself, for a user who had liked something before,
\* after three restaurants.
C30_Witness ==
    /\ browsing = "exhausted"
    /\ likedAtStart # {}
    /\ Len(displayed) >= 3

====
